---- MODULE Spec2Model ----
(***************************************************************************)
(* The retrieval-and-answer pipeline of the CEW ai-service                 *)
(* (src/ai-service/app): language detection, keyword extraction, hybrid    *)
(* search, chunk selection, the deterministic inverter aggregator and the  *)
(* answer post-processor of process_rag_query.                             *)
(*                                                                         *)
(* Strings.  A Python string is modelled as a sequence of atoms.  An atom  *)
(* is a TLA+ string that stands for the run of its characters.  Flat(s)    *)
(* is the string's character sequence; every string operation of the code  *)
(* (lower, strip, split, in, startswith, the regular expressions) is       *)
(* computed on characters.                                                 *)
(* The Turkish letters are written ^i (dotless i), ^s (s cedilla), ^g      *)
(* (soft g), ^u, ^o (u, o diaeresis), ^c (c cedilla), and ^I ^S ^G ^U ^O   *)
(* ^C for their capitals (^I is the dotted capital I); each is one         *)
(* character.  None is Python's None.                                      *)
(*                                                                         *)
(* Scores.  A score is an integer number of 1/ScoreScale units, so that    *)
(* the weights 0.5 and 0.3 and the boosts of the code are exact.           *)
(***************************************************************************)
EXTENDS Integers, Sequences, FiniteSets, TLC

VARIABLES
  pc,                        \* position in the operation under way
  question,                  \* the question (a string)
  expanded_question,         \* the question after _expand_query_if_needed
  language,                  \* "en" / "tr", or "-" before detection
  store,                     \* the collection: records [id, text, metadata] in get() order
  vector_hits,               \* what collection.query returns: <<[id, score]>>, nearest first
  fault,                     \* the dependency calls that raise in this request
  results,                   \* search_documents' return value
  relevant_results,          \* the thresholded (and augmented) results
  selected_results,          \* _select_chunks' return value
  top_k,                     \* search_documents' parameter
  max_chunks,                \* _select_chunks' parameters
  preferred_keyword_chunks,
  llm_answer,                \* what generate_answer returns
  response,                  \* the returned {answer, source}
  calls,                     \* the dependency calls made so far, in order
  observed,                  \* what each store read of the request returned, in order
  documents,                 \* the documents folder: the content of every file
  manifest,                  \* ingest_manifest.json: the sha256 recorded per document
  ingest,                    \* the running incremental ingest: its position and locals
  collection                 \* _collection: None, or the handle get_collection has cached

vars == <<pc, question, expanded_question, language, store, vector_hits, fault, results,
          relevant_results, selected_results, top_k, max_chunks,
          preferred_keyword_chunks, llm_answer, response, calls,
          observed, documents, manifest, ingest, collection>>

\* The variables of the ingest script and the log of the store reads.
ingest_vars == <<observed, documents, manifest, ingest, collection>>

\* No ingest is running and nothing is recorded.
NoIngest ==
  /\ observed = <<>>
  /\ documents = <<>>
  /\ manifest = <<>>
  /\ ingest = [pc |-> "idle"]
  /\ collection = <<"<None>">>

-----------------------------------------------------------------------------
(* Characters and strings                                                  *)

\* The characters of an atom.  "^" and the letter after it are one character.
RawChars(a) == [i \in 1..Len(a) |-> SubSeq(a, i, i)]

RECURSIVE Digraphs(_)
Digraphs(cs) ==
  IF cs = <<>> THEN <<>>
  ELSE IF cs[1] = "^" /\ Len(cs) >= 2
       THEN <<"^" \o cs[2]>> \o Digraphs(SubSeq(cs, 3, Len(cs)))
       ELSE <<cs[1]>> \o Digraphs(Tail(cs))

Chars(a) == Digraphs(RawChars(a))

RECURSIVE Flat(_)
Flat(s) ==
  IF s = <<>> THEN <<>>
  ELSE IF Len(s) = 1 THEN Chars(s[1])
  ELSE Flat(SubSeq(s, 1, Len(s) \div 2)) \o Flat(SubSeq(s, (Len(s) \div 2) + 1, Len(s)))

\* A string literal of the code, written as one atom.
L(a) == Chars(a)

None == <<"<None>">>

\* Python truthiness of an optional string: None and "" are false.
Truthy(s) == s # None /\ s # <<>>

\* `x or ""`
OrEmpty(s) == IF s = None THEN <<>> ELSE s

AsciiUpper == <<"A", "B", "C", "D", "E", "F", "G", "H", "I", "J", "K", "L", "M",
                "N", "O", "P", "Q", "R", "S", "T", "U", "V", "W", "X", "Y", "Z">>
AsciiLower == <<"a", "b", "c", "d", "e", "f", "g", "h", "i", "j", "k", "l", "m",
                "n", "o", "p", "q", "r", "s", "t", "u", "v", "w", "x", "y", "z">>
TurkishUpper == <<"^S", "^G", "^U", "^C", "^O">>
TurkishLower == <<"^s", "^g", "^u", "^c", "^o">>

Range(f) == {f[i] : i \in DOMAIN f}

Digits == {"0", "1", "2", "3", "4", "5", "6", "7", "8", "9"}
AsciiLetters == Range(AsciiUpper) \cup Range(AsciiLower)
\* [şŞğĞüÜçÇöÖıİ]
TurkishChars == Range(TurkishUpper) \cup Range(TurkishLower) \cup {"^i", "^I"}
\* \w of Python's re on str
WordChars == AsciiLetters \cup Digits \cup TurkishChars \cup {"_"}
\* \s, and what strip() removes
Whitespace == {" ", "\n", "\t"}

\* str.lower() of one character: "^I" (dotted capital I) lowers to "i" followed
\* by a combining dot, written "^.", which is not a word character.
LowerFn ==
  [i \in 1..26 |-> <<AsciiLower[i]>>] @@ [i \in 27..31 |-> <<TurkishLower[i - 26]>>]
  @@ (32 :> <<"i", "^.">>)

Uppers == AsciiUpper \o TurkishUpper \o <<"^I">>

UpperIndex(c) == CHOOSE i \in 1..32 : Uppers[i] = c

\* str.lower() of one character
LowerChar(c) == IF c \in Range(Uppers) THEN LowerFn[UpperIndex(c)] ELSE <<c>>

\* str.lower()
RECURSIVE Lower(_)
Lower(s) ==
  IF s = <<>> THEN <<>>
  ELSE IF Len(s) = 1 THEN LowerChar(s[1])
  ELSE Lower(SubSeq(s, 1, Len(s) \div 2)) \o Lower(SubSeq(s, (Len(s) \div 2) + 1, Len(s)))

\* str.isupper() of one character
IsUpper(c) == c \in Range(Uppers)

SubstrAt(p, s, i) ==
  i >= 1 /\ i + Len(p) - 1 <= Len(s) /\ SubSeq(s, i, i + Len(p) - 1) = p

\* p in s
IsSubstr(p, s) == \E i \in 1..(Len(s) - Len(p) + 1) : SubstrAt(p, s, i)

StartsWith(s, p) == SubstrAt(p, s, 1)

EndsWith(s, p) == Len(p) <= Len(s) /\ SubstrAt(p, s, Len(s) - Len(p) + 1)

\* \bp\b matches at i (p begins and ends with a word character)
WordAt(p, s, i) ==
  /\ SubstrAt(p, s, i)
  /\ (i = 1 \/ s[i - 1] \notin WordChars)
  /\ (i + Len(p) > Len(s) \/ s[i + Len(p)] \notin WordChars)

\* re.search(r"\b(p1|p2|...)\b", s) for the set P of alternatives
HasWord(P, s) == \E p \in P : \E i \in 1..(Len(s) - Len(p) + 1) : WordAt(p, s, i)

\* re.search(r"\bp\s*q\b", s)
HasWordPair(p, q, s) ==
  \E i \in 1..Len(s) : \E j \in (i + Len(p))..Len(s) :
    /\ SubstrAt(p, s, i)
    /\ (i = 1 \/ s[i - 1] \notin WordChars)
    /\ \A k \in (i + Len(p))..(j - 1) : s[k] \in Whitespace
    /\ SubstrAt(q, s, j)
    /\ (j + Len(q) > Len(s) \/ s[j + Len(q)] \notin WordChars)

RECURSIVE LStrip(_)
LStrip(s) == IF s # <<>> /\ Head(s) \in Whitespace THEN LStrip(Tail(s)) ELSE s

RECURSIVE RStrip(_)
RStrip(s) ==
  IF s # <<>> /\ s[Len(s)] \in Whitespace THEN RStrip(SubSeq(s, 1, Len(s) - 1)) ELSE s

Strip(s) == LStrip(RStrip(s))

\* The maximal runs of characters of class C in s, in order.
RECURSIVE Runs(_, _, _)
Runs(s, C, cur) ==
  IF s = <<>> THEN (IF cur = <<>> THEN <<>> ELSE <<cur>>)
  ELSE IF Head(s) \in C THEN Runs(Tail(s), C, Append(cur, Head(s)))
       ELSE (IF cur = <<>> THEN <<>> ELSE <<cur>>) \o Runs(Tail(s), C, <<>>)

\* str.split(): the maximal runs of non-whitespace characters
Split(s) == Runs(s, Range(s) \ Whitespace, <<>>)

\* re.findall(r"\b[C]+\b", s) for a class C of word characters: a match is a
\* maximal run of word characters all of which are in C (inside a run of word
\* characters there is no \b to end a shorter match at).
WordTokens(s, C) ==
  SelectSeq(Runs(s, WordChars, <<>>), LAMBDA w : \A i \in 1..Len(w) : w[i] \in C)

\* The set of the strings (as character sequences) that the atoms of A abbreviate.
Lits(A) == {Chars(a) : a \in A}

\* Python's order on str (by code point), for the characters the model uses.
CodeOrder ==
  <<"\n", " ", "%", "(", ")", "+", ",", "-", ".", "/">>
  \o <<"0", "1", "2", "3", "4", "5", "6", "7", "8", "9", ":", "?">>
  \o AsciiUpper \o <<"[", "]", "_">> \o AsciiLower
  \o <<"^C", "^O", "^U", "^c", "^o", "^u", "^G", "^g", "^I", "^i", "^S", "^s">>

CharRank == [c \in Range(CodeOrder) |-> CHOOSE i \in DOMAIN CodeOrder : CodeOrder[i] = c]

RECURSIVE StrLess(_, _)
StrLess(a, b) ==
  IF b = <<>> THEN FALSE
  ELSE IF a = <<>> THEN TRUE
  ELSE IF Head(a) = Head(b) THEN StrLess(Tail(a), Tail(b))
  ELSE CharRank[Head(a)] < CharRank[Head(b)]

\* A score of 1.0.
ScoreScale == 1200

Min(a, b) == IF a <= b THEN a ELSE b
Max(a, b) == IF a >= b THEN a ELSE b

\* s[:n]
SliceTo(s, n) ==
  IF n >= 0 THEN SubSeq(s, 1, Min(n, Len(s))) ELSE SubSeq(s, 1, Max(0, Len(s) + n))


-----------------------------------------------------------------------------
(* app/utils/language_detect.py                                            *)

TURKISH_WORDS ==
  Lits({"ve", "veya", "i^cin", "ile", "bu", "bir", "olan", "olarak",
        "da", "de", "mi", "m^i", "ne", "nas^il", "neden", "ka^c", "toplam",
        "taraf^indan", "g^ore", "aras^inda", "^uzerinde", "alt^inda", "sonra",
        "^once", "^su", "hangi", "kadar", "de^gil", "var", "yok", "evet",
        "hay^ir", "l^utfen", "te^sekk^ur", "merhaba", "g^unayd^in", "iyi",
        "k^ot^u", "b^uy^uk", "k^u^c^uk", "^cok", "az", "hepsi", "hi^c", "baz^i"})

turkish_patterns ==
  <<Lits({"ne kadar", "ka^c tane", "kac tane", "kac", "toplam ne", "toplam kac",
          "hangi", "nedir"}),
    Lits({"yap^ild^i", "yap^ilm^i^s", "tamamland^i", "bitti"}),
    Lits({"ta^seron", "i^s^ci", "metre", "g^un"})>>

\* The lexicon step satisfied by a single word.
LanguageOf_OneWord(t, text_lower) ==
  IF \E i \in 1..Len(t) : t[i] \in TurkishChars THEN "tr"
  ELSE IF Cardinality(Range(WordTokens(text_lower, WordChars)) \cap TURKISH_WORDS) >= 1
    THEN "tr"
  ELSE IF \E k \in 1..3 : HasWord(turkish_patterns[k], text_lower) THEN "tr"
  ELSE "en"

\* detect_language for a non-empty text with characters t
LanguageOf(t, text_lower) ==
  IF \E i \in 1..Len(t) : t[i] \in TurkishChars THEN "tr"
  ELSE IF Cardinality(Range(WordTokens(text_lower, WordChars)) \cap TURKISH_WORDS) >= 2
    THEN "tr"
  ELSE IF \E k \in 1..3 : HasWord(turkish_patterns[k], text_lower) THEN "tr"
  ELSE "en"

detect_language(text) ==
  IF ~Truthy(text) THEN "en" ELSE LanguageOf(Flat(text), Lower(Flat(text)))

FallbackTr == <<"Bu bilgiyi mevcut kay^itlarda/belgelerde bulam^iyorum.">>
FallbackEn == <<"I cannot find this information in the provided records/documents.">>

get_fallback_message(lang) == IF lang = "tr" THEN FallbackTr ELSE FallbackEn

-----------------------------------------------------------------------------
(* app/utils/text_utils.py                                                 *)

stop_words ==
  Lits({"a", "an", "the", "is", "are", "was", "were", "be", "been", "being",
        "have", "has", "had", "do", "does", "did", "will", "would", "could",
        "should", "may", "might", "must", "shall", "can", "need", "dare",
        "ought", "used", "to", "of", "in", "for", "on", "with", "at", "by",
        "from", "as", "into", "through", "during", "before", "after", "above",
        "below", "between", "under", "again", "further", "then", "once",
        "here", "there", "when", "where", "why", "how", "all", "each", "few",
        "more", "most", "other", "some", "such", "no", "nor", "not", "only",
        "own", "same", "so", "than", "too", "very", "just", "and", "but",
        "if", "or", "because", "until", "while", "what", "which", "who",
        "this", "that", "these", "those", "i", "me", "my", "myself", "we",
        "our", "ours", "ourselves", "you", "your", "yours", "yourself", "he",
        "him", "his", "himself", "she", "her", "hers", "herself", "it", "its",
        "itself", "they", "them", "their", "theirs", "themselves"})

\* extract_keywords(text), text a str: lower-case ASCII alphanumeric tokens
\* longer than 2 that are not stop words, in order, duplicates kept.
extract_keywords(text) ==
  SelectSeq(WordTokens(Lower(Flat(text)), AsciiLetters \cup Digits),
            LAMBDA w : w \notin stop_words /\ Len(w) > 2)

-----------------------------------------------------------------------------
(* app/services/chroma_service.py                                          *)

\* collection.get(limit=2000, ...)
scan_limit == 2000

\* sum(1 for kw in query_keywords_lower if kw in doc_text)
Matches(kws, doc_text) == Cardinality({i \in 1..Len(kws) : IsSubstr(kws[i], doc_text)})

\* (matches / len(query_keywords_lower)) * 0.5, exact for up to 6 keywords
KeywordScore(kws, doc_text) == (Matches(kws, doc_text) * (ScoreScale \div 2)) \div Len(kws)

\* (doc or "").lower()
DocTextLower(d) == Lower(Flat(OrEmpty(d.text)))

\* The scored_results entry of the stored chunk d.
Scored(kws, d) ==
  [id |-> d.id, text |-> d.text, metadata |-> d.metadata,
   score |-> KeywordScore(kws, DocTextLower(d))]

\* list.sort(key=score, reverse=True): stable, the higher score first.
RECURSIVE InsertByScore(_, _)
InsertByScore(sorted, x) ==
  IF sorted = <<>> THEN <<x>>
  ELSE IF x.score > sorted[1].score THEN <<x>> \o sorted
       ELSE <<sorted[1]>> \o InsertByScore(Tail(sorted), x)

RECURSIVE SortByScore(_)
SortByScore(rs) ==
  IF rs = <<>> THEN <<>>
  ELSE InsertByScore(SortByScore(SubSeq(rs, 1, Len(rs) - 1)), rs[Len(rs)])

MapScored(kws, ds) == [i \in 1..Len(ds) |-> Scored(kws, ds[i])]

\* The chunks of all_docs with at least one keyword match, scored, in get() order.
ScoredResults(kws, all_docs) ==
  MapScored(kws, SelectSeq(all_docs, LAMBDA d : Matches(kws, DocTextLower(d)) > 0))

\* search_documents_keyword once the query has keywords kws
KeywordScan(coll, kws, k) ==
  SliceTo(SortByScore(ScoredResults(kws, SliceTo(coll, scan_limit))), k)

\* The store read whatever extract_keywords gives.
ScansStore_Always(query_text) == TRUE

\* Whether search_documents_keyword reads the store: the query has keywords.
ScansStore(query_text) == extract_keywords(query_text) # <<>>

search_documents_keyword(coll, query_text, k) ==
  IF ~ScansStore(query_text) THEN <<>>
  ELSE KeywordScan(coll, extract_keywords(query_text), k)

\* collection.query(n_results=top_k): the k nearest chunks, nearest first,
\* each with score 1 - distance.
VectorResults(hits, k) == SliceTo(hits, k)

\* r["score"] * 0.3
KeywordWeighted_Negated(score) == -((score * 3) \div 10)

KeywordWeighted(score) == (score * 3) \div 10

IndexOfId(rs, id) == CHOOSE i \in 1..Len(rs) : rs[i].id = id

HasId(rs, id) == \E i \in 1..Len(rs) : rs[i].id = id

\* One step of "for r in keyword_results" on result_dict (in insertion order).
MergeOne(acc, r) ==
  IF HasId(acc, r.id)
    THEN [acc EXCEPT ![IndexOfId(acc, r.id)].score = @ + KeywordWeighted(r.score)]
    ELSE Append(acc, [r EXCEPT !.score = KeywordWeighted(r.score)])

RECURSIVE MergeKeyword(_, _)
MergeKeyword(acc, krs) ==
  IF krs = <<>> THEN acc ELSE MergeKeyword(MergeOne(acc, Head(krs)), Tail(krs))

\* list(result_dict.values()) before the sort
Merged(vector_results, keyword_results) == MergeKeyword(vector_results, keyword_results)

\* Whether search_documents takes the hybrid branch.
IsHybrid(hybrid, query_text) == hybrid /\ Truthy(query_text)

\* search_documents without the sort of the merged list.
search_documents_Unsorted(coll, hits, k, hybrid, query_text) ==
  IF IsHybrid(hybrid, query_text)
    THEN SliceTo(Merged(VectorResults(hits, k),
                        search_documents_keyword(coll, query_text, 2 * k)), k)
    ELSE VectorResults(hits, k)

search_documents(coll, hits, k, hybrid, query_text) ==
  IF IsHybrid(hybrid, query_text)
    THEN SliceTo(SortByScore(Merged(VectorResults(hits, k),
                                    search_documents_keyword(coll, query_text, 2 * k))),
                 k)
    ELSE VectorResults(hits, k)

-----------------------------------------------------------------------------
(* app/services/rag_service.py: the helpers of chunk selection             *)

\* (q or "").lower()
QueryLower(q) == Lower(Flat(OrEmpty(q)))

\* re.search(r"\[[\d]+\]", s)
HasBracketedNumber(s) ==
  \E i \in 1..Len(s) : \E j \in (i + 2)..Len(s) :
    s[i] = "[" /\ s[j] = "]" /\ \A k \in (i + 1)..(j - 1) : s[k] \in Digits

\* re.search of _detect_query_intent on q_lower; the "type" of the returned dict.
IntentOf(q_lower) ==
  IF HasWord(Lits({"what is", "what's", "nedir", "ne demek", "tan^im^i",
                   "definition", "meaning"}), q_lower)
    THEN "definition"
  ELSE IF \/ HasWord(Lits({"ref", "reference", "referans"}), q_lower)
          \/ HasBracketedNumber(q_lower)
    THEN "reference"
  ELSE IF HasWord(Lits({"who is", "who's", "kimdir", "kim"}), q_lower)
    THEN "identity"
  ELSE IF HasWord(Lits({"table", "tablo", "ratio", "oran^i", "oran", "metraj",
                        "voltage", "gerilim", "current", "ak^im"}), q_lower)
    THEN "table"
  ELSE "normal"

detect_query_intent(q) == IntentOf(QueryLower(q))

known_entities == Lits({"tyler", "grange", "lemp", "eia"})

\* any(w and w[0].isupper() for w in words)
HasCapitalized(words) == \E i \in 1..Len(words) : IsUpper(words[i][1])

\* _is_entity_lookup for a non-empty q with characters s
EntityLookupOf(s) ==
  /\ Len(Split(Strip(s))) < 3
  /\ (HasCapitalized(Split(Strip(s))) \/ \E e \in known_entities : IsSubstr(e, Lower(s)))
  /\ ~(\E i \in 1..Len(s) : s[i] \in Digits)

is_entity_lookup(q) == IF ~Truthy(q) THEN FALSE ELSE EntityLookupOf(Flat(q))

\* re.search(r"\b(what is|...|kimdir)\s+([A-Z][a-z]+(?:\s+[A-Z][a-z]+)?)", s)
AsksAboutCapitalized(s) ==
  \E p \in Lits({"what is", "what's", "who is", "who's", "nedir", "kimdir"}) :
    \E i \in 1..Len(s) : \E j \in (i + Len(p) + 1)..(Len(s) - 1) :
      /\ SubstrAt(p, s, i)
      /\ (i = 1 \/ s[i - 1] \notin WordChars)
      /\ \A k \in (i + Len(p))..(j - 1) : s[k] \in Whitespace
      /\ s[j] \in Range(AsciiUpper)
      /\ s[j + 1] \in Range(AsciiLower)

equipment_query_terms ==
  Lits({"tiger", "neo", "jinko", "sungrow", "sg350", "inverter", "module", "panel",
        "cable", "kablo"})

org_keywords ==
  Lits({"consultant", "company", "firm", "organization", "author", "producer",
        "dan^i^sman", "^sirket", "firma"})

\* The short-query test of _is_organization_query on words = q_original.split()
IsShortEntityName(words) ==
  /\ Len(words) <= 2
  /\ HasCapitalized(words)
  /\ ~(\E i \in 1..Len(words) : Lower(words[i]) \in equipment_query_terms)

OrgQueryOf(q_original, q_lower) ==
  \/ /\ HasWord(Lits({"what is", "what's", "who is", "who's", "nedir", "kimdir"}),
                q_lower)
     /\ AsksAboutCapitalized(q_original)
  \/ IsShortEntityName(Split(q_original))
  \/ \E kw \in org_keywords : IsSubstr(kw, q_lower)

is_organization_query(q) == OrgQueryOf(Strip(Flat(q)), QueryLower(q))

\* str(meta.get("doc_name") or "")
DocName(r) == Flat(OrEmpty(r.metadata.doc_name))

is_ecology_document(doc_name) ==
  \E w \in Lits({"lemp", "ecological", "landscape", "eia", "environmental",
                 "tyler", "grange"}) :
    IsSubstr(w, Lower(Flat(OrEmpty(doc_name))))

\* infer_doc_type when the metadata has no doc_type; dn is the lowered name.
DocTypeOfName(dn) ==
  IF EndsWith(dn, L(".pdf")) THEN L("pdf")
  ELSE IF EndsWith(dn, L(".docx")) \/ EndsWith(dn, L(".doc")) THEN L("word")
  ELSE IF EndsWith(dn, L(".xlsx")) \/ EndsWith(dn, L(".xls")) THEN L("excel")
  ELSE L("unknown")

infer_doc_type(doc_name, meta) ==
  IF Truthy(meta.doc_type) THEN Lower(Flat(meta.doc_type))
  ELSE DocTypeOfName(Lower(Flat(OrEmpty(doc_name))))

allow_short_units ==
  Lits({"m", "mm", "v", "kv", "a", "hz", "%", "wp", "w", "kw", "mw"})

\* The de-duplication step for one keyword kw (already stripped and lowered).
AddOne(acc, kw) == IF kw = <<>> \/ kw \in Range(acc) THEN acc ELSE Append(acc, kw)

\* acc extended by the keywords of kws it does not hold yet, each once, in
\* order (str(kw).strip().lower(), empty ones dropped).
RECURSIVE AddNew(_, _)
AddNew(acc, kws) ==
  IF kws = <<>> THEN acc
  ELSE AddNew(AddOne(acc, Lower(Strip(Head(kws)))), Tail(kws))

\* The raw tokens of q_lower that the loop appends to kws.
KeptTokens(q_lower) ==
  SelectSeq(WordTokens(q_lower, AsciiLetters \cup Digits \cup TurkishChars),
            LAMBDA t : ~(Len(Lower(t)) <= 2 /\ Lower(t) \notin allow_short_units))

\* uniq_kws as it stands at the `if not uniq_kws` test: the extracted keywords,
\* then the raw tokens that are longer than 2 or an allowed unit, de-duplicated.
uniq_kws(q) ==
  AddNew(<<>>, (IF q = None THEN <<>> ELSE extract_keywords(q))
               \o KeptTokens(QueryLower(q)))

\* re.search(r"\bbat\s*box\b|\bbatbox\b|\bbat\s*boxes\b", q_lower)
IsBatBoxQuery(q_lower) ==
  \/ HasWordPair(L("bat"), L("box"), q_lower)
  \/ HasWord({L("batbox")}, q_lower)
  \/ HasWordPair(L("bat"), L("boxes"), q_lower)

\* re.search(r"\b(kablo|cable)\b", ql)
IsCableQuery(ql) == HasWord(Lits({"kablo", "cable"}), ql)

\* is_entity_lookup or is_entity_definition
IsEntityQuery(q) ==
  \/ is_entity_lookup(q)
  \/ (detect_query_intent(q) = "definition" /\ is_organization_query(q))

\* intent_ecology before the entity rule forces it
IsEcologyIntent(q_lower) ==
  \/ HasWord(Lits({"planting", "hedgerow", "ecolog", "lemp", "tyler", "grange",
                   "yarasa"}), q_lower)
  \/ HasWordPair(L("bat"), L("box"), q_lower)

\* What _select_chunks derives from q before it looks at the items; the
\* closures has_kw and boosted_sort_key read these.
QueryProfile(q) ==
  [q_lower |-> QueryLower(q),
   intent |-> detect_query_intent(q),
   entity |-> IsEntityQuery(q),
   intent_ecology |-> IsEcologyIntent(QueryLower(q)) \/ IsEntityQuery(q),
   intent_inverter |->
     HasWord(Lits({"inverter", "inverte", "sg350", "sungrow"}), QueryLower(q)),
   batbox |-> IsBatBoxQuery(QueryLower(q)),
   uniq_kws |-> uniq_kws(q)]

-----------------------------------------------------------------------------
(* app/services/rag_service.py: _select_chunks                             *)

\* any(kw in uniq_kws for kw in A)
HasAny(kws, A) == \E kw \in Lits(A) : kw \in Range(kws)

\* The TR->EN and entity expansions, in the order the code appends them.
Expansions(kws) ==
  (IF HasAny(kws, {"kablo", "kabllo", "kblo"}) THEN <<L("cable")>> ELSE <<>>)
  \o (IF \E i \in 1..Len(kws) : IsSubstr(L("metraj"), kws[i])
        THEN <<L("length"), L("meter"), L("meters")>> ELSE <<>>)
  \o (IF HasAny(kws, {"marka", "markas^i", "mrakas^i", "brand"})
        THEN <<L("brand"), L("manufacturer")>> ELSE <<>>)
  \o (IF HasAny(kws, {"inverter", "inveter"})
        THEN <<L("inverter"), L("sungrow"), L("sg350")>> ELSE <<>>)
  \o (IF HasAny(kws, {"tyler"})
        THEN <<L("tyler grange"), L("grange"), L("consultant"), L("ecological"),
               L("lemp")>> ELSE <<>>)
  \o (IF HasAny(kws, {"grange"})
        THEN <<L("tyler grange"), L("tyler"), L("consultant")>> ELSE <<>>)
  \o (IF HasAny(kws, {"lemp"})
        THEN <<L("landscape"), L("ecological"), L("management"), L("plan")>>
        ELSE <<>>)

EcologyItems(items) == SelectSeq(items, LAMBDA r : is_ecology_document(DocName(r)))

PdfItems(items) ==
  SelectSeq(items, LAMBDA r : infer_doc_type(DocName(r), r.metadata) = L("pdf"))

\* `items` after the entity constraint
EntityConstraint(qp, items) ==
  IF qp.entity /\ EcologyItems(items) # <<>> THEN EcologyItems(items) ELSE items

\* `items` after the bat-box PDF constraint
PdfConstraint(qp, items) ==
  IF qp.batbox /\ PdfItems(items) # <<>> THEN PdfItems(items) ELSE items

ConstrainedItems(qp, items) == PdfConstraint(qp, EntityConstraint(qp, items))

\* uniq_kws after the entity rule has added its keywords
EntityKeywords(qp, items) ==
  IF /\ qp.entity
     /\ EcologyItems(items) # <<>>
     /\ (IsSubstr(L("tyler"), qp.q_lower) \/ IsSubstr(L("grange"), qp.q_lower))
    THEN AddNew(qp.uniq_kws, <<L("tyler"), L("grange"), L("consultant"),
                               L("ecological"), L("lemp")>>)
    ELSE qp.uniq_kws

\* uniq_kws after the expansions
ExpandedKeywords(kws) == AddNew(kws, Expansions(kws))

\* uniq_kws after the bat-box rule
BatBoxKeywords(qp, kws) ==
  IF qp.batbox
    THEN AddNew(SelectSeq(kws, LAMBDA kw : kw # L("box")),
                <<L("bat box"), L("batbox"), L("bat boxes"), L("yarasa")>>)
    ELSE kws

\* uniq_kws as has_kw reads it (the keyword set is not empty).
FinalKeywords(qp, items) ==
  BatBoxKeywords(qp, ExpandedKeywords(EntityKeywords(qp, items)))

has_kw(kws, text) ==
  \E i \in 1..Len(kws) : IsSubstr(kws[i], Lower(Flat(OrEmpty(text))))

\* What boosted_sort_key derives from the chunk r.
DocProfile(r) ==
  [dn |-> DocName(r),
   dnl |-> Lower(DocName(r)),
   dt |-> infer_doc_type(DocName(r), r.metadata),
   ecology |-> is_ecology_document(DocName(r)),
   section_type |-> r.metadata.section_type,
   text_lower |-> Lower(Flat(OrEmpty(r.text)))]

Bonus(c, n) == IF c THEN n ELSE 0

\* The boost for the section_type of the chunk.
SectionBoost(intent, section_type) ==
  IF ~Truthy(section_type) THEN 0
  ELSE IF intent = "definition" /\ Flat(section_type) = L("title")
    THEN 2 * ScoreScale
  ELSE IF intent = "reference" /\ Flat(section_type) = L("references")
    THEN 3 * ScoreScale
  ELSE IF intent = "identity" /\ Flat(section_type) = L("title")
    THEN (3 * ScoreScale) \div 2
  ELSE IF intent = "table" /\ Flat(section_type) = L("table")
    THEN ScoreScale
  ELSE 0

IsScenic(dnl) == IsSubstr(L("landscape"), dnl) \/ IsSubstr(L("ecological"), dnl)

IsTechnical(dnl) == IsSubstr(L("technical description"), dnl)

IsTechnicalOrBill(dnl) == IsTechnical(dnl) \/ IsSubstr(L("bill of m"), dnl)

EcologyBoost(dp) ==
    Bonus(dp.dt = L("pdf"), 2 * ScoreScale)
  + Bonus(dp.ecology, (5 * ScoreScale) \div 2)
  + Bonus(IsScenic(dp.dnl), ScoreScale)
  - Bonus(dp.dt = L("excel"), 2 * ScoreScale)
  - Bonus(IsTechnicalOrBill(dp.dnl), (3 * ScoreScale) \div 2)

InverterBoost(dp) ==
    Bonus(dp.dt \in {L("word"), L("excel")}, ScoreScale)
  + Bonus(IsTechnical(dp.dnl), ScoreScale)

EntityBoost(dp) ==
    Bonus(dp.ecology, 5 * ScoreScale)
  + Bonus(dp.dt = L("pdf") /\ (IsSubstr(L("lemp"), dp.dnl) \/ IsScenic(dp.dnl)),
          3 * ScoreScale)
  - Bonus(dp.dt = L("excel"), 5 * ScoreScale)
  - Bonus(IsTechnicalOrBill(dp.dnl), 4 * ScoreScale)
  - Bonus(\E term \in Lits({"tiger", "neo", "jinko", "module", "panel",
                            "inverter", "sg350", "sungrow"}) :
            IsSubstr(term, dp.text_lower),
          2 * ScoreScale)

\* The boost boosted_sort_key adds to the score, in score units.
Boost(qp, dp) ==
    SectionBoost(qp.intent, dp.section_type)
  + (IF qp.intent_ecology THEN EcologyBoost(dp) ELSE 0)
  + (IF qp.intent_inverter THEN InverterBoost(dp) ELSE 0)
  + (IF qp.entity THEN EntityBoost(dp) ELSE 0)

\* float(r.get("score") or 0.0)
ScoreOf(r) == r.score

\* boosted_sort_key(r) = (-(score + boost), dn)
boosted_sort_key(qp, r) == <<-(ScoreOf(r) + Boost(qp, DocProfile(r))), DocName(r)>>

KeyLess(k1, k2) == k1[1] < k2[1] \/ (k1[1] = k2[1] /\ StrLess(k1[2], k2[2]))

\* list.sort(key=...): a stable insertion of each element after the elements
\* whose key is not greater.
RECURSIVE InsertByKey(_, _)
InsertByKey(sorted, x) ==
  IF sorted = <<>> THEN <<x>>
  ELSE IF KeyLess(x.key, sorted[1].key) THEN <<x>> \o sorted
       ELSE <<sorted[1]>> \o InsertByKey(Tail(sorted), x)

RECURSIVE SortByKey(_)
SortByKey(pairs) ==
  IF pairs = <<>> THEN <<>>
  ELSE InsertByKey(SortByKey(SubSeq(pairs, 1, Len(pairs) - 1)), pairs[Len(pairs)])

Keyed(qp, rs) == [i \in 1..Len(rs) |-> [key |-> boosted_sort_key(qp, rs[i]), r |-> rs[i]]]

Unkeyed(pairs) == [i \in 1..Len(pairs) |-> pairs[i].r]

SortedByBoost(qp, rs) == Unkeyed(SortByKey(Keyed(qp, rs)))

\* pred(text.lower()) of find_anchor for the markers M
HoldsMarker(r, M) == \E m \in Lits(M) : IsSubstr(m, Lower(Flat(OrEmpty(r.text))))

FirstOf(s) == IF s = <<>> THEN <<>> ELSE <<s[1]>>

\* find_anchor(pred): the first item whose lowered text holds a marker of M.
find_anchor(items, M) == FirstOf(SelectSeq(items, LAMBDA r : HoldsMarker(r, M)))

DcMarkers == {"dc", "h1z2z2"}
AcMarkers == {"ac", "lv", "0.6/1"}
MvMarkers == {"mv", "medium voltage", "xlpe"}

\* The anchors appended to `selected`: each found anchor not already there.
RECURSIVE AppendDistinct(_, _)
AppendDistinct(acc, xs) ==
  IF xs = <<>> THEN acc
  ELSE IF Head(xs) \in Range(acc) THEN AppendDistinct(acc, Tail(xs))
       ELSE AppendDistinct(Append(acc, Head(xs)), Tail(xs))

Anchors(qp, items) ==
  IF IsCableQuery(qp.q_lower)
    THEN AppendDistinct(<<>>, find_anchor(items, DcMarkers)
                              \o find_anchor(items, AcMarkers)
                              \o find_anchor(items, MvMarkers))
    ELSE <<>>

\* The final loop: keep the first occurrence of every id.
RECURSIVE DedupeById(_, _)
DedupeById(out, rs) ==
  IF rs = <<>> THEN out
  ELSE IF \E i \in 1..Len(out) : out[i].id = Head(rs).id THEN DedupeById(out, Tail(rs))
       ELSE DedupeById(Append(out, Head(rs)), Tail(rs))

\* selected.extend(rest[:max_chunks - len(selected)]) when selected is short
FillFromRest(selected, rest, maxc) ==
  IF Len(selected) < maxc THEN selected \o SliceTo(rest, maxc - Len(selected))
  ELSE selected

\* The keyword path from the partition on: items are the constrained items
\* and kws the final keywords.
SelectPartitioned(qp, items, kws, maxc, pref) ==
  DedupeById(<<>>,
    FillFromRest(
      Anchors(qp, items)
        \o SliceTo(SortedByBoost(qp, SelectSeq(items, LAMBDA r : has_kw(kws, r.text))),
                   pref),
      SortedByBoost(qp, SelectSeq(items, LAMBDA r : ~has_kw(kws, r.text))),
      maxc))

\* The keyword path of _select_chunks (the keyword set is not empty).
SelectByKeywords(qp, items, maxc, pref) ==
  SelectPartitioned(qp, ConstrainedItems(qp, items), FinalKeywords(qp, items),
                    maxc, pref)

\* The empty-keyword return with the entity and bat-box constraints applied first.
ScoreOnlyFallback_Constrained(qp, items, maxc) ==
  SliceTo(ConstrainedItems(qp, items), maxc)

\* The empty-keyword return: items[:max_chunks].
ScoreOnlyFallback(qp, items, maxc) == SliceTo(items, maxc)

SelectWith(qp, items, maxc, pref) ==
  IF qp.uniq_kws = <<>> THEN ScoreOnlyFallback(qp, items, maxc)
  ELSE SelectByKeywords(qp, items, maxc, pref)

select_chunks(q, items, maxc, pref) ==
  IF items = <<>> THEN <<>> ELSE SelectWith(QueryProfile(q), items, maxc, pref)

-----------------------------------------------------------------------------
(* app/services/rag_service.py: answer post-processing                     *)

\* An optional string as its characters (None stays None).
FlatOpt(s) == IF s = None THEN None ELSE Flat(s)

\* (answer or "").strip().lower()
AnswerLower(answer) == Lower(Strip(Flat(OrEmpty(answer))))

fallback_phrases ==
  Lits({"cannot find", "can't find", "could not find", "bulam^iyorum", "bulamad^im",
        "bulunam^iyor"})

\* The fallback-phrase check of rule 1.
IsFallbackPhrase(answer) == HasWord(fallback_phrases, AnswerLower(answer))

\* Rule 1: an answer with a fallback phrase becomes the canonical message.
Normalised(answer, fallback) ==
  IF IsFallbackPhrase(answer) THEN Flat(fallback) ELSE FlatOpt(answer)

\* source = doc_name, with " (Page p)" or else " (Sheet: s)" appended
SourceOf(meta) ==
  Flat(meta.doc_name)
  \o (IF Truthy(meta.page) THEN L(" (Page ") \o Flat(meta.page) \o L(")")
      ELSE IF Truthy(meta.sheet) THEN L(" (Sheet: ") \o Flat(meta.sheet) \o L(")")
      ELSE <<>>)

\* selected_results[0] if selected_results else relevant_results[0]
PrimaryResult(selected, relevant) == IF selected # <<>> THEN selected[1] ELSE relevant[1]

\* "[Source:" or "[Kaynak:" at position i of a, in any case
IsMarkerAt(a, i) ==
  i + 7 <= Len(a) /\ Lower(SubSeq(a, i, i + 7)) \in Lits({"[source:", "[kaynak:"})

\* re.search(r"\[(Source|Kaynak):", answer, flags=re.IGNORECASE)
HasCitationBracket(a) == \E i \in 1..Len(a) : IsMarkerAt(a, i)

\* [^,\]\n]
CiteChars(a) == Range(a) \ {",", "]", "\n"}

\* Where group 1 of m_cite can begin after a marker that ends before j: after
\* some of the whitespace that follows, on a character of the class.
CaptureStarts(a, j) ==
  {p \in j..Len(a) : a[p] \in CiteChars(a) /\ \A k \in j..(p - 1) : a[k] \in Whitespace}

SetMax(S) == CHOOSE x \in S : \A y \in S : y <= x

SetMin(S) == CHOOSE x \in S : \A y \in S : x <= y

\* The end of the maximal run of class characters that begins at p.
RunEnd(a, p) ==
  SetMax({q \in p..Len(a) : \A k \in p..q : a[k] \in CiteChars(a)})

\* m_cite.group(1).strip() for a match at the marker at i: \s* is greedy.
CitedAt(a, p) == Strip(SubSeq(a, p, RunEnd(a, p)))

\* The marker positions at which m_cite's pattern matches.
CiteMatches(a) == {i \in 1..Len(a) : IsMarkerAt(a, i) /\ CaptureStarts(a, i + 8) # {}}

\* cited_doc of the leftmost match, "" when there is no match
FirstCited(a, matches) ==
  IF matches = {} THEN <<>> ELSE CitedAt(a, SetMax(CaptureStarts(a, SetMin(matches) + 8)))

cited_doc(answer) == FirstCited(OrEmpty(answer), CiteMatches(OrEmpty(answer)))

\* if cited_doc and cited_doc not in source: source = cited_doc
AlignedSource(cited, source) ==
  IF cited # <<>> /\ ~IsSubstr(cited, source) THEN cited ELSE source

\* is_fallback: the answer starts with a canonical message, in any case
is_fallback(answer) ==
  \/ StartsWith(AnswerLower(answer), Lower(Strip(Flat(get_fallback_message("tr")))))
  \/ StartsWith(AnswerLower(answer), Lower(Strip(Flat(get_fallback_message("en")))))

\* (selected_results or [])[:5], without the cut
FallbackDocs_All(selected) == selected

\* (selected_results or [])[:5]
FallbackDocs(selected) == SliceTo(selected, 5)

NamesOf(rs) == [i \in 1..Len(rs) |-> Flat(OrEmpty(rs[i].metadata.doc_name))]

\* doc_names: the distinct non-empty doc names of the chunks, in order
doc_names(selected) ==
  AppendDistinct(<<>>, SelectSeq(NamesOf(FallbackDocs(selected)), LAMBDA dn : dn # <<>>))

\* sep.join(names)
RECURSIVE Join(_, _)
Join(names, sep) ==
  IF names = <<>> THEN <<>>
  ELSE IF Len(names) = 1 THEN names[1]
  ELSE names[1] \o sep \o Join(Tail(names), sep)

\* ", ".join(doc_names) if doc_names else None
SourceList(names) == IF names = <<>> THEN None ELSE Join(names, L(", "))

\* f"{answer.rstrip()} [Kaynak: {source}]"
WithCitation(answer, source) == RStrip(answer) \o L(" [Kaynak: ") \o source \o L("]")

\* The return of the fallback branch.
FallbackResult(answer, source_list) ==
  [answer |-> IF source_list # None /\ ~HasCitationBracket(answer)
                THEN WithCitation(answer, source_list) ELSE answer,
   source |-> source_list]

\* The citation-append guard: `answer and not re.search(...)`.
NeedsCitation(answer) == Truthy(answer) /\ ~HasCitationBracket(answer)

\* The return of the non-fallback branch.
CitedResult(answer, source) ==
  [answer |-> IF NeedsCitation(answer) THEN WithCitation(answer, source) ELSE answer,
   source |-> source]

\* Steps 7 on: the answer is what rule 1 left.
PostProcessNormalised(answer, selected, relevant) ==
  IF is_fallback(answer)
    THEN FallbackResult(answer, SourceList(doc_names(selected)))
    ELSE CitedResult(answer,
           AlignedSource(cited_doc(answer),
                         SourceOf(PrimaryResult(selected, relevant).metadata)))

\* process_rag_query from the completion's return to the function's return.
post_process(answer, fallback, selected, relevant) ==
  PostProcessNormalised(Normalised(answer, fallback), selected, relevant)

-----------------------------------------------------------------------------
(* app/services/rag_service.py: the deterministic inverter aggregator      *)

DigitSeq == <<"0", "1", "2", "3", "4", "5", "6", "7", "8", "9">>

DigitVal(c) == (CHOOSE i \in 1..10 : DigitSeq[i] = c) - 1

\* int(ds) for a string of digits
RECURSIVE ToInt(_)
ToInt(ds) ==
  IF ds = <<>> THEN 0 ELSE 10 * ToInt(SubSeq(ds, 1, Len(ds) - 1)) + DigitVal(ds[Len(ds)])

\* str(n) for n >= 0
RECURSIVE ToStr(_)
ToStr(n) ==
  IF n < 10 THEN <<DigitSeq[n + 1]>> ELSE ToStr(n \div 10) \o <<DigitSeq[(n % 10) + 1]>>

\* The first index >= j of s that holds no whitespace, Len(s) + 1 if none.
SkipWhitespace(s, j) ==
  SetMin({p \in j..(Len(s) + 1) : p = Len(s) + 1 \/ s[p] \notin Whitespace})

\* The last index of the run of digits that begins at p.
DigitsEnd(s, p) == SetMax({q \in p..Len(s) : \A k \in p..q : s[k] \in Digits})

\* \b(\d+)\b matches at p: a whole run of digits between non-word characters
IsNumberAt(s, p) ==
  /\ p <= Len(s)
  /\ s[p] \in Digits
  /\ (p = 1 \/ s[p - 1] \notin WordChars)
  /\ (DigitsEnd(s, p) = Len(s) \/ s[DigitsEnd(s, p) + 1] \notin WordChars)

NumberAt(s, p) == SubSeq(s, p, DigitsEnd(s, p))

\* text.split("DATA:", 1)[1].strip()
AfterData(text) ==
  Strip(SubSeq(text, SetMin({i \in 1..Len(text) : SubstrAt(L("DATA:"), text, i)}) + 5,
               Len(text)))

\* The lookahead ,\s*[^:]{1,120}:\s* holds at p (a shorter than 120 characters).
IsPairBreak(a, p) ==
  /\ a[p] = ","
  /\ p + 1 <= Len(a)
  /\ a[p + 1] # ":"
  /\ \E c \in (p + 2)..Len(a) : a[c] = ":"

\* Where the lazy val ends: before the first pair break, or at the end.
ValEnd(a, vs) ==
  SetMin({p \in vs..(Len(a) + 1) : p = Len(a) + 1 \/ IsPairBreak(a, p)})

\* The (k, v) of one match, kept when both are non-empty after strip().
KvPair(k, v) == IF k # <<>> /\ v # <<>> THEN << <<k, v>> >> ELSE <<>>

\* The matches of re.finditer from position pos on.
RECURSIVE KvFrom(_, _)
KvMatch(a, pos, colon, vs, ve) ==
  KvPair(Strip(SubSeq(a, pos, colon - 1)), Strip(SubSeq(a, vs, ve - 1)))
  \o KvFrom(a, ve)

KvAfterKey(a, pos, colon) ==
  KvMatch(a, pos, colon, SkipWhitespace(a, colon + 1),
          ValEnd(a, SkipWhitespace(a, colon + 1)))

KvFrom(a, pos) ==
  IF pos > Len(a) \/ {c \in (pos + 1)..Len(a) : a[c] = ":"} = {} THEN <<>>
  ELSE IF a[pos] = ":" THEN KvFrom(a, pos + 1)
  ELSE KvAfterKey(a, pos, SetMin({c \in (pos + 1)..Len(a) : a[c] = ":"}))

extract_kv_pairs_from_data(text) ==
  IF ~Truthy(text) \/ ~IsSubstr(L("DATA:"), Flat(text)) THEN <<>>
  ELSE KvFrom(AfterData(Flat(text)), 1)

\* The gate with either term sufficing.
IsInverterCountQuery_EitherTerm(ql) ==
  \/ HasWord(Lits({"inverter", "inverte"}), ql)
  \/ HasWord(Lits({"ka^c", "kac", "how many", "toplam", "total"}), ql)

\* re.search(r"\b(inverter|inverte)\b", ql) and re.search(r"\b(kaç|kac|how
\* many|toplam|total)\b", ql)
IsInverterCountQuery(ql) ==
  /\ HasWord(Lits({"inverter", "inverte"}), ql)
  /\ HasWord(Lits({"ka^c", "kac", "how many", "toplam", "total"}), ql)

\* loc
LocationOf(meta) ==
  IF meta.table_num # None THEN L("Table: ") \o Flat(meta.table_num)
  ELSE IF Truthy(meta.sheet) THEN L("Sheet: ") \o Flat(meta.sheet)
  ELSE IF Truthy(meta.page) THEN L("Page: ") \o Flat(meta.page)
  ELSE None

\* meta.get("doc_name") or "Unknown Document"
DocNameOrUnknown(meta) ==
  IF Truthy(meta.doc_name) THEN Flat(meta.doc_name) ELSE L("Unknown Document")

Citation(doc_name, loc) ==
  L("[Kaynak: ") \o doc_name \o (IF loc # None THEN L(", ") \o loc ELSE <<>>) \o L("]")

CitationOf(meta) == Citation(DocNameOrUnknown(meta), LocationOf(meta))

MentionsTotalInverter(s) == IsSubstr(L("total"), Lower(s)) /\ IsSubstr(L("inverter"), Lower(s))

has_total_label(kvs) ==
  \E i \in 1..Len(kvs) : MentionsTotalInverter(kvs[i][1]) \/ MentionsTotalInverter(kvs[i][2])

\* re.fullmatch(r"\s*(\d{1,6})\s*", v)
IsSimpleInteger(v) ==
  /\ Strip(v) # <<>>
  /\ Len(Strip(v)) <= 6
  /\ \A i \in 1..Len(Strip(v)) : Strip(v)[i] \in Digits

\* The values of kvs that are simple integers, in order.
IntegerValues(kvs) == SelectSeq(kvs, LAMBDA kv : IsSimpleInteger(kv[2]))

TotalRowAnswer(n, r) ==
  [answer |-> L("Projede toplam ") \o ToStr(n) \o L(" adet inverter bulunmaktad^ir ")
                \o CitationOf(r.metadata),
   source |-> DocNameOrUnknown(r.metadata)]

\* Whether the first loop returns at the chunk with these pairs.
HasTotalRow(kvs) == has_total_label(kvs) /\ IntegerValues(kvs) # <<>>

\* The aggregator returns None.
NoResult == [answer |-> None, source |-> None]

\* The first loop: the answer from the first total-labelled row, if any.
RECURSIVE TotalRow(_)
TotalRow(items) ==
  IF items = <<>> THEN NoResult
  ELSE IF HasTotalRow(extract_kv_pairs_from_data(items[1].text))
    THEN TotalRowAnswer(
           ToInt(Strip(IntegerValues(extract_kv_pairs_from_data(items[1].text))[1][2])),
           items[1])
  ELSE TotalRow(Tail(items))

\* \bsubstation\s*(\d+)\b matches at s, in any case
IsSubstationAt(t, s) ==
  /\ s + 9 <= Len(t)
  /\ Lower(SubSeq(t, s, s + 9)) = L("substation")
  /\ (s = 1 \/ t[s - 1] \notin WordChars)
  /\ SkipWhitespace(t, s + 10) <= Len(t)
  /\ t[SkipWhitespace(t, s + 10)] \in Digits
  /\ (DigitsEnd(t, SkipWhitespace(t, s + 10)) = Len(t)
      \/ t[DigitsEnd(t, SkipWhitespace(t, s + 10)) + 1] \notin WordChars)

\* group 1 of the match at s
SubstationNumber(t, s) == NumberAt(t, SkipWhitespace(t, s + 10))

SubstationStarts(t) == {s \in 1..Len(t) : IsSubstationAt(t, s)}

\* re.search(r"[x×*/+]", s)
IsComplexExpression(s) == \E i \in 1..Len(s) : s[i] \in {"x", "^x", "*", "/", "+"}

NumberStarts(s) == {p \in 1..Len(s) : IsNumberAt(s, p)}

\* The per_sub entry for substation digits sub.
Count(sub, n, cit) == [sub |-> sub, n |-> n, cit |-> cit]

\* per_sub entries of one (k, v) pair of the DATA row
StructuredCount(k, v, cit) ==
  IF /\ SubstationStarts(k) # {}
     /\ IsSubstr(L("inverter"), Lower(v))
     /\ NumberStarts(Lower(v)) # {}
     /\ ~IsComplexExpression(Lower(v))
     /\ Len(Lower(v)) <= 40
    THEN <<Count(SubstationNumber(k, SetMin(SubstationStarts(k))),
                 ToInt(NumberAt(Lower(v), SetMin(NumberStarts(Lower(v))))), cit)>>
    ELSE <<>>

RECURSIVE StructuredCounts(_, _)
StructuredCounts(kvs, cit) ==
  IF kvs = <<>> THEN <<>>
  ELSE StructuredCount(kvs[1][1], kvs[1][2], cit) \o StructuredCounts(Tail(kvs), cit)

\* \b(\d+)\b\s*inverters?\b matches at p: the index of its last character, 0 if not
InvertersEnd(t, w) ==
  IF /\ w + 8 <= Len(t)
     /\ Lower(SubSeq(t, w, w + 8)) = L("inverters")
     /\ (w + 8 = Len(t) \/ t[w + 9] \notin WordChars)
    THEN w + 8
  ELSE IF /\ w + 7 <= Len(t)
          /\ Lower(SubSeq(t, w, w + 7)) = L("inverter")
          /\ (w + 7 = Len(t) \/ t[w + 8] \notin WordChars)
    THEN w + 7
  ELSE 0

CountEnd(t, p) ==
  IF IsNumberAt(t, p) THEN InvertersEnd(t, SkipWhitespace(t, DigitsEnd(t, p) + 1)) ELSE 0

\* Where the lazy .*? of the fallback pattern can stop, for a match begun at s.
CountStarts(t, s) ==
  {p \in (DigitsEnd(t, SkipWhitespace(t, s + 10)) + 1)..Len(t) : CountEnd(t, p) > 0}

\* The starts >= from at which the fallback pattern matches.
FallbackStarts(t, from) == {s \in from..Len(t) : IsSubstationAt(t, s) /\ CountStarts(t, s) # {}}

\* The entry of the match that begins at s and whose count begins at p.
FallbackCount(t, s, p, cit) ==
  IF IsComplexExpression(Lower(SubSeq(t, s, CountEnd(t, p)))) THEN <<>>
  ELSE <<Count(SubstationNumber(t, s), ToInt(NumberAt(t, p)), cit)>>

\* The matches of re.finditer(r"\bsubstation\s*(\d+)\b.*?\b(\d+)\b\s*inverters?\b")
\* from position `from` on.
RECURSIVE FallbackCounts(_, _, _)
FallbackMatch(t, s, p, cit) ==
  FallbackCount(t, s, p, cit) \o FallbackCounts(t, CountEnd(t, p) + 1, cit)

FallbackAt(t, s, cit) == FallbackMatch(t, s, SetMin(CountStarts(t, s)), cit)

FallbackCounts(t, from, cit) ==
  IF FallbackStarts(t, from) = {} THEN <<>>
  ELSE FallbackAt(t, SetMin(FallbackStarts(t, from)), cit)

\* What the second loop appends to per_sub for the chunk r.
ChunkCounts(r) ==
  IF ~IsSubstr(L("inverter"), Lower(Flat(OrEmpty(r.text)))) THEN <<>>
  ELSE StructuredCounts(extract_kv_pairs_from_data(r.text), CitationOf(r.metadata))
       \o FallbackCounts(Flat(OrEmpty(r.text)), 1, CitationOf(r.metadata))

\* per_sub, as the list of its entries in the order they are appended
RECURSIVE AllCounts(_)
AllCounts(items) ==
  IF items = <<>> THEN <<>> ELSE ChunkCounts(items[1]) \o AllCounts(Tail(items))

\* dedup: per substation, the distinct (n, citation) pairs in order
DedupCounts(entries) == AppendDistinct(<<>>, entries)

\* dedup.keys(), in insertion order
SubsOf(entries) == AppendDistinct(<<>>, [i \in 1..Len(entries) |-> entries[i].sub])

\* sorted(keys, key=int(...)): stable insertion by substation number
RECURSIVE InsertSub(_, _)
InsertSub(sorted, sub) ==
  IF sorted = <<>> THEN <<sub>>
  ELSE IF ToInt(sub) < ToInt(sorted[1]) THEN <<sub>> \o sorted
       ELSE <<sorted[1]>> \o InsertSub(Tail(sorted), sub)

RECURSIVE SortSubs(_)
SortSubs(subs) ==
  IF subs = <<>> THEN <<>>
  ELSE InsertSub(SortSubs(SubSeq(subs, 1, Len(subs) - 1)), subs[Len(subs)])

\* dedup[sub]
ValsOf(entries, sub) == SelectSeq(entries, LAMBDA e : e.sub = sub)

\* f"{n} {cit}" for each value
Parts(vals) == [i \in 1..Len(vals) |-> ToStr(vals[i].n) \o L(" ") \o vals[i].cit]

BreakdownLine(sub, vals) ==
  IF Len(vals) = 1
    THEN L("- Substation ") \o sub \o L(": ") \o ToStr(vals[1].n) \o L(" inverter ")
         \o vals[1].cit
    ELSE L("- Substation ") \o sub \o L(": ") \o Join(Parts(vals), L(", "))

BreakdownLines(entries, subs) ==
  [i \in 1..Len(subs) |-> BreakdownLine(subs[i], ValsOf(entries, subs[i]))]

IsUnambiguous_NonEmpty(entries, subs) ==
  \A i \in 1..Len(subs) : Len(ValsOf(entries, subs[i])) >= 1

\* all(len(v) == 1 for v in dedup.values())
IsUnambiguous(entries, subs) == \A i \in 1..Len(subs) : Len(ValsOf(entries, subs[i])) = 1

RECURSIVE SumSeq(_)
SumSeq(ns) == IF ns = <<>> THEN 0 ELSE ns[1] + SumSeq(Tail(ns))

\* The first count of every substation, in the order of subs.
FirstCounts(entries, subs) == [i \in 1..Len(subs) |-> ValsOf(entries, subs[i])[1].n]

NumberStrings(ns) == [i \in 1..Len(ns) |-> ToStr(ns[i])]

\* f"Toplam inverter sayısı: {total} (hesap: {calc})"
TotalLine(ns) ==
  L("Toplam inverter say^is^i: ") \o ToStr(SumSeq(ns)) \o L(" (hesap: ")
  \o Join(NumberStrings(ns), L(" + ")) \o L(")")

AmbiguityNote ==
  L("Not: Ayn^i substation i^cin birden fazla inverter say^is^i ge^cti^gi i^cin ")
  \o L("tek bir toplam de^geri g^uvenle hesaplayam^iyorum.")

LastLine(entries, subs) ==
  IF IsUnambiguous(entries, subs) THEN TotalLine(FirstCounts(entries, subs))
  ELSE AmbiguityNote

\* list.sort() of strings
RECURSIVE InsertString(_, _)
InsertString(sorted, x) ==
  IF sorted = <<>> THEN <<x>>
  ELSE IF StrLess(x, sorted[1]) THEN <<x>> \o sorted
       ELSE <<sorted[1]>> \o InsertString(Tail(sorted), x)

RECURSIVE SortStrings(_)
SortStrings(xs) ==
  IF xs = <<>> THEN <<>>
  ELSE InsertString(SortStrings(SubSeq(xs, 1, Len(xs) - 1)), xs[Len(xs)])

\* ", ".join(sorted({doc names})) or None
SourceSummary(items) ==
  SourceList(SortStrings(AppendDistinct(<<>>,
    SelectSeq(NamesOf(items), LAMBDA dn : dn # <<>>))))

\* The return of the aggregation branch for the de-duplicated entries.
AggregateAnswer(entries, subs, items) ==
  IF Len(subs) < 2 THEN NoResult
  ELSE [answer |-> Join(Append(BreakdownLines(entries, subs), LastLine(entries, subs)),
                        L("\n")),
        source |-> SourceSummary(items)]

Aggregate(entries, items) == AggregateAnswer(entries, SortSubs(SubsOf(entries)), items)

\* The second part of _try_answer_total_inverters: no total row returned.
PerSubstation(items) == Aggregate(DedupCounts(AllCounts(items)), items)

AnswerTotal(items, total_row) ==
  IF total_row # NoResult THEN total_row ELSE PerSubstation(items)

\* _try_answer_total_inverters(q, items): the returned dict, or NoResult
try_answer_total_inverters(q, items) ==
  IF ~IsInverterCountQuery(QueryLower(q)) THEN NoResult
  ELSE AnswerTotal(items, TotalRow(items))

-----------------------------------------------------------------------------
(* app/services/rag_service.py: process_rag_query                          *)

\* known_entities of _expand_query_if_needed, in the order of the dict
expansion_entities == <<L("tyler"), L("grange"), L("lemp"), L("eia")>>

\* known_entities[entity]
ExpansionOf(entity) ==
  IF entity \in {L("tyler"), L("grange")} THEN L("Tyler Grange ecological consultant")
  ELSE IF entity = L("lemp") THEN L("LEMP Landscape and Ecological Management Plan")
  ELSE L("EIA Environmental Impact Assessment")

\* s.rstrip(c)
RECURSIVE RStripChar(_, _)
RStripChar(s, c) ==
  IF s # <<>> /\ s[Len(s)] = c THEN RStripChar(SubSeq(s, 1, Len(s) - 1), c) ELSE s

\* words[0].lower().rstrip("?") of a one-word query, "" otherwise
SingleWord(words) == IF Len(words) = 1 THEN RStripChar(Lower(words[1]), "?") ELSE <<>>

\* \bentity\b matches s at i, in any case
EntityAt(entity, s, i) ==
  /\ i + Len(entity) - 1 <= Len(s)
  /\ Lower(SubSeq(s, i, i + Len(entity) - 1)) = entity
  /\ (i = 1 \/ s[i - 1] \notin WordChars)
  /\ (i + Len(entity) > Len(s) \/ s[i + Len(entity)] \notin WordChars)

EntityStarts(entity, s) == {i \in 1..Len(s) : EntityAt(entity, s, i)}

\* The entities at which the loop over known_entities returns, in dict order.
Replaceable(q_lower, q_original) ==
  SelectSeq(expansion_entities,
            LAMBDA e : IsSubstr(e, q_lower) /\ EntityStarts(e, q_original) # {})

\* pattern.sub(expansion, q_original, count=1) for the match at i
ReplaceAt(s, i, n, by) == SubSeq(s, 1, i - 1) \o by \o SubSeq(s, i + n, Len(s))

ExpandFirst(q, q_original, entities) ==
  IF entities = <<>> THEN q
  ELSE ReplaceAt(q_original, SetMin(EntityStarts(entities[1], q_original)),
                 Len(entities[1]), ExpansionOf(entities[1]))

ExpandDefinition(q, q_lower, q_original) ==
  IF HasWord(Lits({"what is", "what's", "nedir", "ne demek"}), q_lower)
    THEN ExpandFirst(q, q_original, Replaceable(q_lower, q_original))
    ELSE q

ExpandQuery(q, q_lower, q_original, word) ==
  IF word \in Range(expansion_entities) THEN ExpansionOf(word)
  ELSE ExpandDefinition(q, q_lower, q_original)

\* _expand_query_if_needed(q)
expand_query_if_needed(q) ==
  IF ~Truthy(q) THEN q
  ELSE ExpandQuery(q, Strip(Lower(Flat(q))), Strip(Flat(q)), SingleWord(Split(Strip(Flat(q)))))

TOP_K_RESULTS == 60

SIMILARITY_THRESHOLD == 0

\* retrieval_top_k = max(TOP_K_RESULTS, 120)
retrieval_top_k == Max(TOP_K_RESULTS, 120)

\* The defaults of _select_chunks' max_chunks and preferred_keyword_chunks.
default_max_chunks == 25

default_preferred_keyword_chunks == 15

\* The threshold filter without the threshold.
PassesThreshold_Always(r) == TRUE

\* r["score"] >= SIMILARITY_THRESHOLD
PassesThreshold(r) == r.score >= SIMILARITY_THRESHOLD

\* relevant_results = [r for r in results if r["score"] >= SIMILARITY_THRESHOLD]
Relevant(rs) == SelectSeq(rs, PassesThreshold)

cable_terms == Lits({"cable type", "cross section", "mm2", "mm^2", "h1z2z2"})

ecology_terms ==
  Lits({"bat box", "bat boxes", "batbox", "yarasa", "ecological", "planting", "hedgerow"})

\* re.search(r"\b(bat\s*box|batbox|bat\s*boxes|yarasa)\b", ql)
IsBatAugmentQuery(ql) == IsBatBoxQuery(ql) \/ HasWord({L("yarasa")}, ql)

\* The chunk a lexical augmentation appends for the stored document d.
Augmentation(d) == [id |-> d.id, text |-> d.text, metadata |-> d.metadata, score |-> 0]

\* any(term in t for term in lexical_terms)
HasTerm(terms, d) == \E term \in terms : IsSubstr(term, Lower(Flat(OrEmpty(d.text))))

\* The loop without the test on existing_ids.
RECURSIVE Augment_Unchecked(_, _, _)
Augment_Unchecked(relevant, docs, terms) ==
  IF docs = <<>> THEN relevant
  ELSE IF HasTerm(terms, docs[1])
    THEN Augment_Unchecked(Append(relevant, Augmentation(docs[1])), Tail(docs), terms)
  ELSE Augment_Unchecked(relevant, Tail(docs), terms)

\* One augmentation loop over the documents docs of collection.get.
RECURSIVE Augment(_, _, _)
Augment(relevant, docs, terms) ==
  IF docs = <<>> THEN relevant
  ELSE IF ~HasId(relevant, docs[1].id) /\ HasTerm(terms, docs[1])
    THEN Augment(Append(relevant, Augmentation(docs[1])), Tail(docs), terms)
  ELSE Augment(relevant, Tail(docs), terms)

\* The scan of an augmentation block raises: the store's scans all fail, or
\* the store fails after retrieval has read it.
AugmentScanFails(faults) == faults \cap {"collection.get", "augmentation scan"} # {}

\* An augmentation block that appends whatever the scan raises.
AugmentIf_IgnoringFailure(intent, relevant, coll, faults, terms) ==
  IF intent THEN Augment(relevant, SliceTo(coll, scan_limit), terms) ELSE relevant

\* An augmentation block: skipped without the intent, and without effect when
\* collection.get raises (try ... except: pass).
AugmentIf(intent, relevant, coll, faults, terms) ==
  IF intent /\ ~AugmentScanFails(faults)
    THEN Augment(relevant, SliceTo(coll, scan_limit), terms)
    ELSE relevant

\* The two lexical augmentations of relevant_results, cable then ecology.
Augmented(relevant, coll, faults, ql) ==
  AugmentIf(IsBatAugmentQuery(ql),
            AugmentIf(IsCableQuery(ql), relevant, coll, faults, cable_terms),
            coll, faults, ecology_terms)

AugmentCalls(ql) ==
  (IF IsCableQuery(ql) THEN <<"collection.get">> ELSE <<>>)
  \o (IF IsBatAugmentQuery(ql) THEN <<"collection.get">> ELSE <<>>)

\* The store calls search_documents makes before one of them raises.
FailedSearchCalls(q, faults) ==
  IF "collection.query" \in faults THEN <<"collection.query">>
  ELSE <<"collection.query", "collection.get">>

\* Whether search_documents(..., hybrid=True, query_text=q) raises.
SearchFails(q, faults) ==
  \/ "collection.query" \in faults
  \/ ("collection.get" \in faults /\ IsHybrid(TRUE, q) /\ ScansStore(q))

\* f"Error generating ...: {str(e)}"
ErrorResult(prefix) == [answer |-> L(prefix) \o L("unavailable"), source |-> None]

\* {"answer": fallback, "source": None}
NoResultsFallback(lang) == [answer |-> Flat(get_fallback_message(lang)), source |-> None]

\* The exception leaves process_rag_query.
Raised == [kind |-> "raised", answer |-> None, source |-> None]

-----------------------------------------------------------------------------
(* Inputs: documents, chunks, questions                                    *)

Sp == " "

Meta(doc, page, sheet) ==
  [doc_name |-> doc, doc_type |-> None, page |-> page, sheet |-> sheet,
   table_num |-> None, section_type |-> None]

\* The chunks the model's stores and candidate lists are made of.
ChunkPool ==
  << [text |-> <<"Tyler", Sp, "Grange", Sp, "ecological", Sp, "consultant">>,
      metadata |-> Meta(<<"lemp.pdf">>, <<"3">>, None)],
     [text |-> <<"Tiger", Sp, "Neo", Sp, "module">>,
      metadata |-> Meta(<<"bom.xlsx">>, None, <<"BOM">>)],
     [text |-> <<"DC", Sp, "cable", Sp, "H1Z2Z2">>,
      metadata |-> Meta(<<"Technical Description.docx">>, None, None)],
     [text |-> <<"MV", Sp, "cable", Sp, "XLPE">>,
      metadata |-> Meta(<<"spec.pdf">>, <<"2">>, None)],
     [text |-> <<"bat", Sp, "boxes">>,
      metadata |-> Meta(<<"lemp.pdf">>, <<"3">>, None)],
     [text |-> <<"inverter", Sp, "SG350">>,
      metadata |-> Meta(<<"bom.xlsx">>, None, <<"BOM">>)] >>

\* Pool chunk i as the store holds it.
Doc(i) == [id |-> i, text |-> ChunkPool[i].text, metadata |-> ChunkPool[i].metadata]

\* The retrieval result for pool chunk i with the given score.
Result(i, score) ==
  [id |-> i, text |-> ChunkPool[i].text, metadata |-> ChunkPool[i].metadata,
   score |-> score]

ExtendDistinct(shorter, S) ==
  shorter \cup {Append(p[1], p[2]) : p \in {p \in shorter \X S : p[2] \notin Range(p[1])}}

\* Sequences of at most n distinct elements of S.
RECURSIVE DistinctSeqs(_, _)
DistinctSeqs(S, n) ==
  IF n = 0 THEN {<<>>} ELSE ExtendDistinct(DistinctSeqs(S, n - 1), S)

\* The permutations of 1..n.
Perms(n) == {p \in DistinctSeqs(1..n, n) : Len(p) = n}

IsIncreasing(s) == \A i \in 1..(Len(s) - 1) : s[i] < s[i + 1]

NoResponse == [kind |-> "pending", answer |-> None, source |-> None]

\* The function returns the dict result.
Returned(result) == [kind |-> "returned", answer |-> result.answer, source |-> result.source]

-----------------------------------------------------------------------------
(* SpecSelect: _select_chunks applied to a question and a candidate list   *)

MaxItems == 3
MaxChunksArg == 3
MaxPreferredArg == 2

SelectQuestions ==
  { <<>>,
    <<"?">>,
    <<"ne">>,
    <<"Is it?">>,
    <<"mm">>,
    <<"Tyler?">>,
    <<"what is Tyler">>,
    <<"kablo nedir">>,
    <<"cable">>,
    <<"bat box">>,
    <<"bat box cable">>,
    <<"module SG350">>,
    <<"how many inverters">> }

\* Candidate lists: distinct pool chunks in any order, best score first, as
\* search_documents returns them.
RankScore(i) == ScoreScale - 100 * i

Candidates ==
  {[i \in 1..Len(ix) |-> Result(ix[i], RankScore(i))] :
     ix \in DistinctSeqs(1..Len(ChunkPool), MaxItems)}

\* Candidate lists that hold a chunk id twice.
RepeatedCandidates ==
  { <<Result(3, RankScore(1)), Result(3, RankScore(2))>>,
    <<Result(3, RankScore(1)), Result(4, RankScore(2)), Result(3, RankScore(3))>> }

InitSelect ==
  /\ pc = "select"
  /\ question \in SelectQuestions
  /\ expanded_question = question
  /\ relevant_results \in Candidates \cup RepeatedCandidates
  /\ max_chunks \in 1..MaxChunksArg
  /\ preferred_keyword_chunks \in 1..MaxPreferredArg
  /\ selected_results = <<>>
  /\ language = "-"
  /\ store = <<>>
  /\ vector_hits = <<>>
  /\ fault = {}
  /\ results = <<>>
  /\ top_k = 0
  /\ llm_answer = None
  /\ response = NoResponse
  /\ calls = <<>>
  /\ NoIngest

SelectChunks ==
  /\ pc = "select"
  /\ selected_results' =
       select_chunks(question, relevant_results, max_chunks, preferred_keyword_chunks)
  /\ pc' = "selected"
  /\ UNCHANGED <<ingest_vars, question, expanded_question, language, store, vector_hits, fault, results,
                 relevant_results, top_k, max_chunks, preferred_keyword_chunks,
                 llm_answer, response, calls>>

NextSelect == SelectChunks

SpecSelect == InitSelect /\ [][NextSelect]_vars

\* C1: when the effective keyword set of the question is empty, _select_chunks
\* returns exactly the first max_chunks candidates, in input order and unmodified.
C1_ScoreOnlyFallback ==
  (pc = "selected" /\ uniq_kws(question) = <<>>)
    => selected_results = SubSeq(relevant_results, 1, Min(max_chunks, Len(relevant_results)))

\* A question without keywords that is an entity lookup, candidates that hold an
\* ecology document behind a higher-ranked other one, and a cut by max_chunks.
C1_Witness ==
  /\ pc = "selected"
  /\ uniq_kws(question) = <<>>
  /\ is_entity_lookup(question)
  /\ Len(relevant_results) > max_chunks
  /\ max_chunks >= 2
  /\ ~is_ecology_document(DocName(relevant_results[1]))
  /\ is_ecology_document(DocName(relevant_results[2]))
  /\ selected_results # <<>>

-----------------------------------------------------------------------------
(* SpecHybrid: search_documents applied to a store, a ranking and a query  *)

MaxStore == 3
MaxTopK == 3

HybridQuestions ==
  { <<>>,
    <<"?">>,
    <<"cable">>,
    <<"DC cable XLPE">>,
    <<"Tyler Grange consultant">>,
    <<"bat boxes module">>,
    <<"nedir">> }

\* The stores: up to MaxStore pool chunks, in pool order.
Stores ==
  {[i \in 1..Len(ix) |-> Doc(ix[i])] :
     ix \in {s \in DistinctSeqs(1..Len(ChunkPool), MaxStore) : IsIncreasing(s)}}

\* The similarity (1 - distance) of the chunk at rank i: close to the query,
\* or far from it (cosine similarity can be negative).
SimilarityPatterns == {"near", "far", "tied"}

Similarity(pattern, i) ==
  IF pattern = "near" THEN ScoreScale - 100 * i
  ELSE IF pattern = "far" THEN 100 - 100 * i
  ELSE ScoreScale \div 2

WithScore(d, score) ==
  [id |-> d.id, text |-> d.text, metadata |-> d.metadata, score |-> score]

\* What collection.query can return for the store st: its chunks in any
\* order of distance, nearest first.
Rankings(st) ==
  {[i \in 1..Len(st) |-> WithScore(st[p[i]], Similarity(pattern, i))] :
     p \in Perms(Len(st)), pattern \in SimilarityPatterns}

InitHybrid ==
  /\ pc = "search"
  /\ question \in HybridQuestions
  /\ expanded_question = question
  /\ store \in Stores
  /\ vector_hits \in Rankings(store)
  /\ top_k \in 1..MaxTopK
  /\ results = <<>>
  /\ language = "-"
  /\ fault = {}
  /\ relevant_results = <<>>
  /\ selected_results = <<>>
  /\ max_chunks = 0
  /\ preferred_keyword_chunks = 0
  /\ llm_answer = None
  /\ response = NoResponse
  /\ calls = <<>>
  /\ NoIngest

\* The store calls of search_documents(..., hybrid=True, query_text=q).
SearchCalls(q) ==
  <<"collection.query">>
  \o (IF IsHybrid(TRUE, q) /\ ScansStore(q) THEN <<"collection.get">> ELSE <<>>)

SearchDocuments ==
  /\ pc = "search"
  /\ results' = search_documents(store, vector_hits, top_k, TRUE, question)
  /\ calls' = calls \o SearchCalls(question)
  /\ pc' = "searched"
  /\ UNCHANGED <<ingest_vars, question, expanded_question, language, store, vector_hits, fault, relevant_results,
                 selected_results, top_k, max_chunks, preferred_keyword_chunks,
                 llm_answer, response>>

NextHybrid == SearchDocuments

SpecHybrid == InitHybrid /\ [][NextHybrid]_vars

\* The vector-only score of the chunk id, which the vector result list holds.
VectorScoreOf(id) ==
  VectorResults(vector_hits, top_k)[IndexOfId(VectorResults(vector_hits, top_k), id)].score

InBothLists(id) ==
  /\ HasId(VectorResults(vector_hits, top_k), id)
  /\ HasId(search_documents_keyword(store, question, 2 * top_k), id)

\* C2: a returned chunk that is in both the vector result list and the lexical
\* result list has a merged score not below its vector-only score.
C2_LexicalAgreementNeverLowers ==
  pc = "searched" =>
    \A i \in 1..Len(results) :
      InBothLists(results[i].id) => results[i].score >= VectorScoreOf(results[i].id)

\* A chunk found by both passes was returned with its score raised.
C2_Witness ==
  /\ pc = "searched"
  /\ \E i \in 1..Len(results) :
       /\ InBothLists(results[i].id)
       /\ results[i].score > VectorScoreOf(results[i].id)
       /\ VectorScoreOf(results[i].id) < 0

-----------------------------------------------------------------------------
(* SpecPost: the answer post-processing of process_rag_query applied to a  *)
(* completion, a language and a selection                                  *)

\* What generate_answer can return.
RawAnswers ==
  { None,
    <<>>,
    <<"  ">>,
    <<"Jinko">>,
    <<"Jinko  ">>,
    <<"Jinko [Source: bom.xlsx]">>,
    <<"Jinko [Kaynak: spec.pdf, Page 2]">>,
    <<"Jinko [source: lemp.pdf]">>,
    <<"[Source:] Jinko">>,
    <<"I cannot find it">>,
    <<"I could not find this. [Source: bom.xlsx]">>,
    <<"Bilgiyi bulamad^im">>,
    FallbackEn,
    FallbackTr }

\* A selected chunk of the named document.
PostChunk(id, doc, page, sheet) ==
  [id |-> id, text |-> <<"Jinko">>, metadata |-> Meta(<<doc>>, page, sheet),
   score |-> ScoreScale]

SixDocuments ==
  << PostChunk(1, "bom.xlsx", None, <<"BOM">>), PostChunk(2, "spec.pdf", <<"2">>, None),
     PostChunk(3, "lemp.pdf", <<"3">>, None), PostChunk(4, "td.docx", None, None),
     PostChunk(5, "sld.pdf", <<"1">>, None), PostChunk(6, "plan.pdf", <<"1">>, None) >>

\* (selected_results, relevant_results) at the completion call.
PostSelections ==
  { <<<<>>, <<PostChunk(1, "bom.xlsx", None, <<"BOM">>)>>>>,
    <<SubSeq(SixDocuments, 1, 1), SubSeq(SixDocuments, 1, 1)>>,
    <<SubSeq(SixDocuments, 2, 2), SubSeq(SixDocuments, 2, 3)>>,
    <<SubSeq(SixDocuments, 4, 4), SubSeq(SixDocuments, 4, 4)>>,
    << <<PostChunk(2, "spec.pdf", <<"2">>, None), PostChunk(7, "spec.pdf", <<"3">>, None),
         PostChunk(1, "bom.xlsx", None, <<"BOM">>)>>,
       <<PostChunk(2, "spec.pdf", <<"2">>, None), PostChunk(7, "spec.pdf", <<"3">>, None),
         PostChunk(1, "bom.xlsx", None, <<"BOM">>)>> >>,
    <<SixDocuments, SixDocuments>>,
    << <<PostChunk(8, "could not find.pdf", <<"1">>, None)>>,
       <<PostChunk(8, "could not find.pdf", <<"1">>, None)>> >>,
    << <<PostChunk(9, "old bom.xlsx", None, <<"BOM">>)>>,
       <<PostChunk(9, "old bom.xlsx", None, <<"BOM">>)>> >> }

InitPost ==
  /\ pc = "completed"
  /\ language \in {"en", "tr"}
  /\ llm_answer \in RawAnswers
  /\ \E sel \in PostSelections : selected_results = sel[1] /\ relevant_results = sel[2]
  /\ question = <<>>
  /\ expanded_question = question
  /\ store = <<>>
  /\ vector_hits = <<>>
  /\ fault = {}
  /\ results = <<>>
  /\ top_k = 0
  /\ max_chunks = 0
  /\ preferred_keyword_chunks = 0
  /\ response = NoResponse
  /\ calls = <<>>
  /\ NoIngest

PostProcess ==
  /\ pc = "completed"
  /\ response' = Returned(post_process(llm_answer, get_fallback_message(language),
                                       selected_results, relevant_results))
  /\ pc' = "returned"
  /\ UNCHANGED <<ingest_vars, question, expanded_question, language, store, vector_hits, fault, results, relevant_results,
                 selected_results, top_k, max_chunks, preferred_keyword_chunks,
                 llm_answer, calls>>

NextPost == PostProcess

SpecPost == InitPost /\ [][NextPost]_vars

\* The number of citation markers in the answer a.
MarkerCount(a) == Cardinality({i \in 1..Len(a) : IsMarkerAt(a, i)})

\* C4: a completion that is not classified as fallback and has no citation
\* bracket, the empty and the missing one included, is returned with exactly one
\* bracket appended, which names the returned source.
C4_CitationAlwaysAppended ==
  (/\ pc = "returned"
   /\ ~is_fallback(Normalised(llm_answer, get_fallback_message(language)))
   /\ ~HasCitationBracket(Flat(OrEmpty(llm_answer))))
    => /\ response.answer # None
       /\ MarkerCount(response.answer) = 1
       /\ response.answer = RStrip(Flat(OrEmpty(llm_answer))) \o L(" [Kaynak: ")
                              \o response.source \o L("]")

\* C5: post-processing the returned answer again, with the same language and
\* selection, returns the same answer and source.
C5_PostProcessIdempotent ==
  pc = "returned"
    => Returned(post_process(response.answer, get_fallback_message(language),
                             selected_results, relevant_results)) = response

\* C6: the fallback-phrase check of rule 1 classifies the returned answer as it
\* classified the completion, and the completions it classifies as fallback are
\* the ones the starts-with-canonical-message check classifies as fallback.
C6_FallbackDetectionStable ==
  pc = "returned"
    => /\ IsFallbackPhrase(response.answer) = IsFallbackPhrase(llm_answer)
       /\ IsFallbackPhrase(llm_answer)
            = is_fallback(Normalised(llm_answer, get_fallback_message(language)))

-----------------------------------------------------------------------------
(* SpecAgg: _try_answer_total_inverters applied to a question and the      *)
(* relevant results                                                        *)

MaxAggItems == 3

AggQuestions ==
  { <<"toplam inverter say^is^i ka^c">>,
    <<"how many inverter are there">>,
    <<"how many inverters">>,
    <<"inverter SG350">>,
    <<"how many cables">>,
    <<"MV cable XLPE">> }

AggChunk(id, text, doc, page, sheet) ==
  [id |-> id, text |-> <<text>>, metadata |-> Meta(<<doc>>, page, sheet), score |-> ScoreScale]

\* The chunks the relevant results are drawn from.
AggPool ==
  << AggChunk(11, "DATA: SUBSTATION 1: 27 inverters", "td.docx", <<"4">>, None),
     AggChunk(12, "DATA: SUBSTATION 2: 30 inverters", "td.docx", <<"4">>, None),
     AggChunk(13, "DATA: SUBSTATION 3: 97 inverters", "td.docx", <<"5">>, None),
     AggChunk(14, "Substation 1 has 27 inverters", "bom.xlsx", None, <<"BOM">>),
     AggChunk(15, "DATA: SUBSTATION 1: 13 inverters", "spec.pdf", <<"2">>, None),
     AggChunk(16, "DATA: TOTAL INVERTERS: 154", "td.docx", <<"6">>, None),
     AggChunk(17, "DATA: SUBSTATION 1: 27 inverters, SUBSTATION 2: 30 inverters",
              "td.docx", <<"4">>, None),
     AggChunk(18, "MV cable XLPE", "spec.pdf", <<"2">>, None),
     AggChunk(19, "DATA: SUBSTATIONS: 6, TOTAL INVERTERS: 154", "td.docx", <<"6">>, None),
     AggChunk(20, "Substation 1 and Substation 2: 30 inverters", "spec.pdf", <<"3">>, None) >>

AggCandidates ==
  {[i \in 1..Len(ix) |-> AggPool[ix[i]]] : ix \in DistinctSeqs(1..Len(AggPool), MaxAggItems)}

InitAgg ==
  /\ pc = "aggregate"
  /\ question \in AggQuestions
  /\ expanded_question = question
  /\ relevant_results \in AggCandidates
  /\ language = "-"
  /\ store = <<>>
  /\ vector_hits = <<>>
  /\ fault = {}
  /\ results = <<>>
  /\ selected_results = <<>>
  /\ top_k = 0
  /\ max_chunks = 0
  /\ preferred_keyword_chunks = 0
  /\ llm_answer = None
  /\ response = NoResponse
  /\ calls = <<>>
  /\ NoIngest

\* agg = _try_answer_total_inverters(question, relevant_results)
Declined == [kind |-> "declined", answer |-> None, source |-> None]

AggResponse(agg) == IF agg = NoResult THEN Declined ELSE Returned(agg)

TryAnswerTotalInverters ==
  /\ pc = "aggregate"
  /\ response' = AggResponse(try_answer_total_inverters(question, relevant_results))
  /\ pc' = "aggregated"
  /\ UNCHANGED <<ingest_vars, question, expanded_question, language, store, vector_hits, fault, results, relevant_results,
                 selected_results, top_k, max_chunks, preferred_keyword_chunks,
                 llm_answer, calls>>

NextAgg == TryAnswerTotalInverters

SpecAgg == InitAgg /\ [][NextAgg]_vars

\* The substation numbers among the extracted counts.
NumbersIn(entries) == {ToInt(entries[i].sub) : i \in 1..Len(entries)}

\* Some substation has two different extracted counts.
HasConflict(entries) ==
  \E i, j \in 1..Len(entries) :
    ToInt(entries[i].sub) = ToInt(entries[j].sub) /\ entries[i].n # entries[j].n

NoTotalLabelledRow ==
  \A i \in 1..Len(relevant_results) :
    ~has_total_label(extract_kv_pairs_from_data(relevant_results[i].text))

\* The members of the set S of numbers in ascending order.
RECURSIVE Ascending(_)
Ascending(S) == IF S = {} THEN <<>> ELSE <<SetMin(S)>> \o Ascending(S \ {SetMin(S)})

\* The count of substation number k.
CountOf(entries, k) == (CHOOSE e \in Range(entries) : ToInt(e.sub) = k).n

CountsOf(entries, numbers) == [i \in 1..Len(numbers) |-> CountOf(entries, numbers[i])]

\* s.split(sep)
RECURSIVE SplitBy(_, _)
SplitAt(s, sep, i) ==
  <<SubSeq(s, 1, i - 1)>> \o SplitBy(SubSeq(s, i + Len(sep), Len(s)), sep)

SplitBy(s, sep) ==
  IF ~IsSubstr(sep, s) THEN <<s>>
  ELSE SplitAt(s, sep, SetMin({i \in 1..Len(s) : SubstrAt(sep, s, i)}))

AnswerLines == SplitBy(response.answer, L("\n"))

\* The counts extracted agree per substation, for two substations or more, and
\* the answer states their total.
TotalStated(entries, lines) ==
  (Cardinality(NumbersIn(entries)) >= 2 /\ ~HasConflict(entries))
    => /\ response.kind = "returned"
       /\ TotalLine(CountsOf(entries, Ascending(NumbersIn(entries)))) \in Range(lines)

\* C7: for an inverter counting query with no total-labelled row and at least
\* two substations found, none with two different counts, the aggregator returns
\* an answer whose total line states the sum of the per-substation counts and
\* lists them in ascending substation number joined by " + ".
C7_TotalOfAgreeingCounts ==
  (pc = "aggregated" /\ IsInverterCountQuery(QueryLower(question)) /\ NoTotalLabelledRow)
    => TotalStated(AllCounts(relevant_results), AnswerLines)

\* An answer line for the extracted count e: it names the substation, the count
\* and the citation.
IsBreakdownLineFor(line, e) ==
  /\ StartsWith(line, L("- Substation ") \o e.sub \o L(": "))
  /\ IsSubstr(ToStr(e.n) \o L(" "), line)
  /\ IsSubstr(e.cit, line)

\* The counts extracted conflict, and the answer, if one is returned, breaks
\* them down without a total.
ConflictFlagged(entries, lines) ==
  (HasConflict(entries) /\ response.kind = "returned")
    => /\ \A e \in Range(entries) : \E line \in Range(lines) : IsBreakdownLineFor(line, e)
       /\ AmbiguityNote \in Range(lines)
       /\ ~IsSubstr(L("Toplam"), response.answer)
       /\ ~IsSubstr(L("hesap:"), response.answer)

ThreeCountsInConflict(entries) ==
  HasConflict(entries) /\ Cardinality(NumbersIn(entries)) = 2 /\ Len(entries) >= 3

-----------------------------------------------------------------------------
(* Spec: process_rag_query, from the question to the returned result       *)

PipelineQuestions ==
  { <<>>,
    <<"Tyler?">>,
    <<"what is LEMP">>,
    <<"DC cable">>,
    <<"bat box">>,
    <<"toplam inverter say^is^i ka^c">>,
    <<"how many inverter are there">>,
    <<"bat box cable">>,
    <<"Jinko nedir">> }

StoreOf(chunks) ==
  [i \in 1..Len(chunks) |->
     [id |-> chunks[i].id, text |-> chunks[i].text, metadata |-> chunks[i].metadata]]

\* Chunks that hold curated terms of the cable and of the bat-box augmentation.
AugmentPool ==
  << AggChunk(21, "bat box cable type", "spec.pdf", <<"7">>, None),
     AggChunk(22, "DC cable H1Z2Z2", "td.docx", None, None),
     AggChunk(23, "bat boxes", "lemp.pdf", <<"3">>, None) >>

PipelineStores ==
  { <<>>,
    [i \in 1..4 |-> Doc(i)],
    StoreOf(SixDocuments),
    StoreOf(<<AggPool[1], AggPool[4], AggPool[2]>>),
    StoreOf(AugmentPool) }

\* The similarity of the chunk at rank i: "opposite" ranks every chunk below
\* a threshold of zero.
PipelineSimilarity(pattern, i) ==
  IF pattern = "opposite" THEN 0 - 100 * i ELSE Similarity(pattern, i)

Reversed(s) == [i \in 1..Len(s) |-> s[Len(s) + 1 - i]]

\* What collection.query can return: the stored chunks in store order or in
\* the reverse order, near the query or opposite to it.
PipelineRankings(st) ==
  {[i \in 1..Len(o) |-> WithScore(o[i], PipelineSimilarity(pattern, i))] :
     o \in {st, Reversed(st)}, pattern \in {"near", "opposite"}}

\* The dependency calls that can raise; at most one does in a request.
\* "collection.get" is every scan of the store, "augmentation scan" the scans
\* of the lexical augmentation only.
Dependencies ==
  {"generate_embedding", "collection.query", "collection.get", "augmentation scan",
   "generate_answer"}

PipelineAnswers ==
  { None, <<"Jinko">>, <<"Jinko [Source: bom.xlsx]">>, <<"I cannot find it">>,
    <<"I could not find this. [Source: other.pdf]">> }

Init ==
  /\ pc = "start"
  /\ question \in PipelineQuestions
  /\ expanded_question = question
  /\ language = "-"
  /\ store \in PipelineStores
  /\ vector_hits \in PipelineRankings(store)
  /\ fault \in {{}} \cup {{d} : d \in Dependencies}
  /\ llm_answer \in PipelineAnswers
  /\ results = <<>>
  /\ relevant_results = <<>>
  /\ selected_results = <<>>
  /\ top_k = retrieval_top_k
  /\ max_chunks = default_max_chunks
  /\ preferred_keyword_chunks = default_preferred_keyword_chunks
  /\ response = NoResponse
  /\ calls = <<>>
  /\ NoIngest

\* Steps 0 to 2: expansion, language detection, the embedding call.
Embed ==
  /\ pc = "start"
  /\ expanded_question' = expand_query_if_needed(question)
  /\ language' = detect_language(expanded_question')
  /\ calls' = Append(calls, "generate_embedding")
  /\ IF "generate_embedding" \in fault
       THEN /\ response' = Returned(ErrorResult("Error generating embedding: "))
            /\ pc' = "returned"
       ELSE /\ response' = response
            /\ pc' = "embedded"
  /\ UNCHANGED <<ingest_vars, question, store, vector_hits, fault, results, relevant_results,
                 selected_results, top_k, max_chunks, preferred_keyword_chunks, llm_answer>>

\* The request going on with an empty result list.
NoRelevantResults_Ignored(relevant) == FALSE

\* `if not results` and `if not relevant_results`: the early fallback.
NoRelevantResults(relevant) == relevant = <<>>

\* Steps 3 and 4: hybrid retrieval and the threshold filter.
Retrieve ==
  /\ pc = "embedded"
  /\ IF SearchFails(expanded_question, fault)
       THEN /\ calls' = calls \o FailedSearchCalls(expanded_question, fault)
            /\ response' = Raised
            /\ pc' = "raised"
            /\ UNCHANGED <<results, relevant_results>>
       ELSE /\ calls' = calls \o SearchCalls(expanded_question)
            /\ results' = search_documents(store, vector_hits, top_k, TRUE, expanded_question)
            /\ relevant_results' = Relevant(results')
            /\ IF NoRelevantResults(relevant_results')
                 THEN response' = Returned(NoResultsFallback(language)) /\ pc' = "returned"
                 ELSE response' = response /\ pc' = "retrieved"
  /\ UNCHANGED <<ingest_vars, question, expanded_question, language, store, vector_hits, fault,
                 selected_results, top_k, max_chunks, preferred_keyword_chunks, llm_answer>>

\* The aggregator's answer ignored: the request always goes on to the
\* completion call.
ReturnAggregate_Ignored(agg) ==
  response' = response /\ pc' = "selected"

\* agg = _try_answer_total_inverters(...); if agg: return agg
ReturnAggregate(agg) ==
  IF agg # NoResult
    THEN response' = Returned(agg) /\ pc' = "returned"
    ELSE response' = response /\ pc' = "selected"

\* The augmentations, step 5 and the deterministic aggregation.
Select ==
  /\ pc = "retrieved"
  /\ calls' = calls \o AugmentCalls(QueryLower(expanded_question))
  /\ relevant_results' = Augmented(relevant_results, store, fault, QueryLower(expanded_question))
  /\ selected_results' = select_chunks(expanded_question, relevant_results', max_chunks,
                                       preferred_keyword_chunks)
  /\ ReturnAggregate(try_answer_total_inverters(expanded_question, relevant_results'))
  /\ UNCHANGED <<ingest_vars, question, expanded_question, language, store, vector_hits, fault, results,
                 top_k, max_chunks, preferred_keyword_chunks, llm_answer>>

\* Step 6: the completion call.
Complete ==
  /\ pc = "selected"
  /\ calls' = Append(calls, "generate_answer")
  /\ IF "generate_answer" \in fault
       THEN /\ response' = Returned(ErrorResult("Error generating answer: "))
            /\ pc' = "returned"
       ELSE /\ response' = response
            /\ pc' = "completed"
  /\ UNCHANGED <<ingest_vars, question, expanded_question, language, store, vector_hits, fault, results,
                 relevant_results, selected_results, top_k, max_chunks,
                 preferred_keyword_chunks, llm_answer>>

Next == Embed \/ Retrieve \/ Select \/ Complete \/ PostProcess

Spec == Init /\ [][Next]_vars

\* The doc names of the selected chunks.
SelectedDocNames == {Flat(OrEmpty(selected_results[i].metadata.doc_name)) : i \in 1..Len(selected_results)}

\* The page- or sheet-qualified source strings of the retrieved chunks.
QualifiedSources ==
  {SourceOf(r.metadata) : r \in {r \in Range(selected_results) \cup Range(relevant_results) :
                                   Truthy(r.metadata.page) \/ Truthy(r.metadata.sheet)}}

\* parts is a list of at most five pairwise distinct names out of names.
IsNameList(parts, names) ==
  /\ Len(parts) <= 5
  /\ \A i \in 1..Len(parts) : parts[i] \in names
  /\ \A i, j \in 1..Len(parts) : parts[i] = parts[j] => i = j

FallbackSourceOk(source) ==
  \/ source = None
  \/ /\ IsNameList(SplitBy(source, L(", ")), SelectedDocNames)
     /\ source \notin QualifiedSources
     /\ (source = cited_doc(FlatOpt(llm_answer)) => source \in SelectedDocNames)

\* C3: when the returned answer is classified as fallback, the returned source
\* is null or a ", "-joined list of at most five pairwise distinct doc names of
\* selected chunks; it is no chunk's page- or sheet-qualified source and is not
\* taken from a citation of the completion.
C3_FallbackSourceIsDocumentList ==
  (response.kind = "returned" /\ is_fallback(response.answer))
    => FallbackSourceOk(response.source)

C3_Witness ==
  /\ response.kind = "returned"
  /\ is_fallback(response.answer)
  /\ Len(selected_results) = 6
  /\ Cardinality(SelectedDocNames) = 6
  /\ response.source # None
  /\ Len(SplitBy(response.source, L(", "))) = 5

\* Retrieval returned, and nothing it returned reaches the threshold.
NothingRelevant ==
  /\ "collection.query" \in Range(calls)
  /\ \A i \in 1..Len(results) : results[i].score < SIMILARITY_THRESHOLD

\* C9: when hybrid retrieval returns nothing, or nothing at or above
\* SIMILARITY_THRESHOLD, process_rag_query returns the canonical fallback message
\* of the question's language with source null.
C9_NoResultsFallback ==
  (response.kind = "returned" /\ NothingRelevant)
    => /\ response.answer = Flat(get_fallback_message(detect_language(question)))
       /\ response.source = None
       /\ ~HasCitationBracket(response.answer)

C9_Witness ==
  /\ response.kind = "returned"
  /\ NothingRelevant
  /\ results # <<>>
  /\ detect_language(question) = "tr"
  /\ response.answer = Flat(FallbackTr)

\* C10: no failure of the embedding call, of the store query or scan, or of the
\* completion call leaves process_rag_query as a raised exception.
C10_NoDependencyFailureEscapes == response.kind # "raised"

\* The request is past the lexical augmentation: retrieval returned results
\* that passed the threshold, and step 5 has run.
PastAugmentation ==
  /\ pc \in {"selected", "completed", "returned"}
  /\ Relevant(results) # <<>>

\* The question triggers a lexical augmentation.
IsAugmentQuery == IsCableQuery(QueryLower(expanded_question))
                    \/ IsBatAugmentQuery(QueryLower(expanded_question))

\* C11: when the store scan of a cable or bat-box augmentation raises, the
\* request is not failed: the thresholded results are left as they were, and
\* chunk selection runs on them.
C11_AugmentationFailureSwallowed ==
  (PastAugmentation /\ IsAugmentQuery /\ "augmentation scan" \in fault)
    => /\ response.kind # "raised"
       /\ relevant_results = Relevant(results)
       /\ selected_results = select_chunks(expanded_question, Relevant(results), max_chunks,
                                           preferred_keyword_chunks)

\* The scan raised for a cable query whose augmentation would have added a
\* chunk of the store, and the request went on to selection.
C11_Witness ==
  /\ PastAugmentation
  /\ pc = "selected"
  /\ IsCableQuery(QueryLower(expanded_question))
  /\ "augmentation scan" \in fault
  /\ Augment(Relevant(results), store, cable_terms) # Relevant(results)
  /\ selected_results # <<>>

\* The words of the lowered question, split at non-word characters.
QuestionWords == Range(Runs(QueryLower(question), WordChars, <<>>))

\* The question holds the entity term as a word.
HasEntityTerm == QuestionWords \cap Lits({"inverter", "inverte"}) # {}

\* The question holds a counting term as a word ("how many" as two words in a row).
HasCountingTerm ==
  \/ QuestionWords \cap Lits({"ka^c", "kac", "toplam", "total"}) # {}
  \/ HasWord({L("how many")}, QueryLower(question))

\* C12: for a question that lacks the entity term or lacks the counting term,
\* _try_answer_total_inverters returns nothing, whatever the candidates hold.
C12_AggregatorGate ==
  (pc = "aggregated" /\ ~(HasEntityTerm /\ HasCountingTerm)) => response = Declined

\* The aggregator declined a question with the entity term and without a counting
\* term, although the candidates hold a total row or counts for two substations.
C12_Witness ==
  /\ pc = "aggregated"
  /\ HasEntityTerm
  /\ ~HasCountingTerm
  /\ AnswerTotal(relevant_results, TotalRow(relevant_results)) # NoResult
  /\ response = Declined

\* The distinct extracted counts are of at least two substations, one each.
YieldsUnambiguousCounts(entries) ==
  /\ Cardinality(NumbersIn(entries)) >= 2
  /\ \A i, j \in 1..Len(entries) : entries[i].sub = entries[j].sub => i = j

\* C13: for the question "how many inverters" and candidates that yield at
\* least two substations with one unambiguous count each,
\* _try_answer_total_inverters returns an aggregated answer.
C13_PluralEntityTermPassesGate ==
  (/\ pc = "aggregated"
   /\ question = <<"how many inverters">>
   /\ YieldsUnambiguousCounts(DedupCounts(AllCounts(relevant_results))))
    => response.kind = "returned"

\* The doc name of the primary chunk, from which the source is computed.
PrimaryDocName ==
  Flat(PrimaryResult(selected_results, relevant_results).metadata.doc_name)

\* The completion is not classified as fallback and its first citation bracket
\* names a document other than the primary chunk's.
CitesAnotherDocument ==
  /\ ~is_fallback(Normalised(llm_answer, get_fallback_message(language)))
  /\ cited_doc(FlatOpt(llm_answer)) # <<>>
  /\ cited_doc(FlatOpt(llm_answer)) # PrimaryDocName

\* C14: for a non-fallback answer whose citation bracket names a document
\* other than the document of the computed source, the returned source is the
\* cited document name, also when that name is part of the computed source.
C14_CitedDocumentBecomesSource ==
  (pc = "returned" /\ CitesAnotherDocument)
    => response.source = cited_doc(FlatOpt(llm_answer))

DistinctIds(rs) == \A i, j \in 1..Len(rs) : rs[i].id = rs[j].id => i = j

MergedCandidates ==
  IF IsHybrid(TRUE, question)
    THEN Merged(VectorResults(vector_hits, top_k),
                search_documents_keyword(store, question, 2 * top_k))
    ELSE VectorResults(vector_hits, top_k)

\* rs is the k best of the candidates, best first.
IsTopOf(rs, candidates, k) ==
  /\ Len(rs) <= k
  /\ Len(rs) = Min(k, Len(candidates))
  /\ DistinctIds(rs)
  /\ Range(rs) \subseteq Range(candidates)
  /\ \A i \in 1..(Len(rs) - 1) : rs[i].score >= rs[i + 1].score
  /\ \A c \in Range(candidates) \ Range(rs) : \A i \in 1..Len(rs) : c.score <= rs[i].score

\* C17: a hybrid search returns at most top_k merged candidates with pairwise
\* distinct ids, in non-increasing score order, and leaves out no candidate
\* with a score above that of one it returns.
C17_TopKDescending ==
  pc = "searched" => IsTopOf(results, MergedCandidates, top_k)

\* The merged list was longer than top_k and the sort changed its order.
C17_Witness ==
  /\ pc = "searched"
  /\ IsHybrid(TRUE, question)
  /\ Len(MergedCandidates) > top_k
  /\ results # SliceTo(MergedCandidates, top_k)
  /\ \E i \in 1..Len(results) : ~HasId(VectorResults(vector_hits, top_k), results[i].id)

\* The request returned an answer text without calling the language model:
\* the early fallback message or the aggregator's answer.
AnsweredWithoutModel ==
  /\ pc = "returned"
  /\ "generate_embedding" \notin fault
  /\ \A i \in 1..Len(calls) : calls[i] # "generate_answer"

\* C18: an answer text produced without the language model is written in
\* the language that detect_language returns for the question.
C18_AnswerInQuestionLanguage ==
  AnsweredWithoutModel => detect_language(response.answer) = detect_language(question)

IsEcologyChunk(r) == is_ecology_document(r.metadata.doc_name)

\* The selection for the question "Tyler?" has been made from a candidate
\* pool holding a chunk of an ecology-classified document.
TylerSelectedFromEcologyPool ==
  /\ pc = "selected"
  /\ question = <<"Tyler?">>
  /\ \E i \in 1..Len(relevant_results) : IsEcologyChunk(relevant_results[i])

\* C19: for the question "Tyler?", when the candidate pool holds a chunk of
\* an ecology-classified document, every selected chunk belongs to an
\* ecology-classified document.
C19_TylerConstrainedToEcology ==
  TylerSelectedFromEcologyPool
    => \A i \in 1..Len(selected_results) : IsEcologyChunk(selected_results[i])

\* The positions of the completion call in the request's call log.
CompletionCalls == {i \in 1..Len(calls) : calls[i] = "generate_answer"}

\* The request is over: a result was returned or the exception left.
RequestOver == pc \in {"returned", "raised"}

\* A result passed the threshold and the aggregator returned nothing.
AggregatorDeclinedRelevant ==
  /\ Relevant(results) # <<>>
  /\ try_answer_total_inverters(expanded_question, relevant_results) = NoResult

\* Retrieval, the threshold filter, augmentation and selection have
\* finished with the values the request holds.
StagesFinished ==
  /\ Len(calls) >= 3
  /\ calls[1] = "generate_embedding"
  /\ calls[2] = "collection.query"
  /\ results = search_documents(store, vector_hits, top_k, TRUE, expanded_question)
  /\ relevant_results = Augmented(Relevant(results), store, fault, QueryLower(expanded_question))
  /\ selected_results = select_chunks(expanded_question, relevant_results, max_chunks,
                                      preferred_keyword_chunks)

\* C20: the completion call is made at most once, as the last dependency
\* call and after retrieval, filtering, augmentation, selection and the
\* aggregation attempt; a finished request has made it exactly when a result
\* passed the threshold and the aggregator returned nothing.
C20_CompletionOnceAfterAggregation ==
  /\ Cardinality(CompletionCalls) <= 1
  /\ CompletionCalls # {}
       => /\ CompletionCalls = {Len(calls)}
          /\ pc \in {"completed", "returned"}
          /\ StagesFinished
          /\ AggregatorDeclinedRelevant
  /\ (RequestOver /\ AggregatorDeclinedRelevant) => CompletionCalls # {}
  /\ (RequestOver /\ ~AggregatorDeclinedRelevant) => CompletionCalls = {}

\* The completion call has been made as the last of at least four
\* dependency calls, with a non-empty selection.
C20_Witness ==
  /\ pc = "completed"
  /\ calls[Len(calls)] = "generate_answer"
  /\ Len(calls) >= 4
  /\ selected_results # <<>>

\* C22: a hybrid search whose query text yields no keywords returns exactly
\* what the vector-only search returns (same chunks, scores and order) and
\* does not scan the store.
C22_NoKeywordsIsVectorOnly ==
  (pc = "searched" /\ extract_keywords(question) = <<>>)
    => /\ results = search_documents(store, vector_hits, top_k, FALSE, question)
       /\ \A i \in 1..Len(calls) : calls[i] # "collection.get"

\* A non-empty query text without keywords took the hybrid branch and several
\* chunks of equal similarity came back.
C22_Witness ==
  /\ pc = "searched"
  /\ IsHybrid(TRUE, question)
  /\ extract_keywords(question) = <<>>
  /\ Len(results) >= 2
  /\ results[1].score = results[2].score

CableMarkers == {DcMarkers, AcMarkers, MvMarkers}

CarriesMarker(rs, M) == \E i \in 1..Len(rs) : HoldsMarker(rs[i], M)

\* C23: for a cable query, every sub-category (DC, AC, MV) whose marker some
\* chunk of the candidate pool carries is represented in the selection.
C23_CableCategoriesAnchored ==
  (pc = "selected" /\ IsCableQuery(QueryLower(question)))
    => \A M \in CableMarkers :
         CarriesMarker(relevant_results, M) => CarriesMarker(selected_results, M)

\* score + boost of boosted_sort_key
BoostedScore(qp, r) == ScoreOf(r) + Boost(qp, DocProfile(r))

\* `selected` before the remainder is added: the anchors and the first
\* preferred_keyword_chunks keyword hits.
SeededSelection(qp, items, kws, pref) ==
  Anchors(qp, items)
  \o SliceTo(SortedByBoost(qp, SelectSeq(items, LAMBDA r : has_kw(kws, r.text))), pref)

\* The chunks the remainder phase adds.
RemainderSelected(qp, items, kws, maxc, pref) ==
  IF Len(SeededSelection(qp, items, kws, pref)) < maxc
    THEN SliceTo(SortedByBoost(qp, SelectSeq(items, LAMBDA r : ~has_kw(kws, r.text))),
                 maxc - Len(SeededSelection(qp, items, kws, pref)))
    ELSE <<>>

IdsOf(rs) == {rs[i].id : i \in 1..Len(rs)}

RemainderIsBest(qp, pool, selected, remainder) ==
  \A i \in 1..Len(pool) : \A j \in 1..Len(remainder) :
    pool[i].id \notin IdsOf(selected)
      => BoostedScore(qp, pool[i]) <= BoostedScore(qp, remainder[j])

\* C24: with a non-empty keyword set, no unselected candidate has a higher
\* boosted score than a chunk selected in the remainder phase, and the
\* selection is shorter than max_chunks only when the pool has fewer than
\* max_chunks distinct ids.
C24_RemainderFilledByScore ==
  (pc = "selected" /\ uniq_kws(question) # <<>>)
    => /\ RemainderIsBest(QueryProfile(question), relevant_results, selected_results,
                          RemainderSelected(QueryProfile(question),
                            ConstrainedItems(QueryProfile(question), relevant_results),
                            FinalKeywords(QueryProfile(question), relevant_results),
                            max_chunks, preferred_keyword_chunks))
       /\ Len(selected_results) < max_chunks
            => Cardinality(IdsOf(relevant_results)) < max_chunks

\* The pair kv of a structured row carries the total-inverters label in its
\* key and an exact integer as its value.
IsLabelledTotal(kv) == MentionsTotalInverter(kv[1]) /\ IsSimpleInteger(kv[2])

LabelledTotals(r) ==
  SelectSeq(extract_kv_pairs_from_data(r.text), LAMBDA kv : IsLabelledTotal(kv))

\* The answer reports the integer of a labelled pair of one of the items.
ReportsLabelledTotal(answer, items) ==
  \E i \in 1..Len(items) : \E j \in 1..Len(LabelledTotals(items[i])) :
    answer = TotalRowAnswer(ToInt(Strip(LabelledTotals(items[i])[j][2])), items[i])

\* C25: when a candidate's row pairs a total-inverters label with an integer,
\* the aggregator returns directly and reports the integer paired with such
\* a label, never the integer of another pair of the row.
C25_TotalRowReportsLabelledInteger ==
  (/\ pc = "aggregated"
   /\ IsInverterCountQuery(QueryLower(question))
   /\ \E i \in 1..Len(relevant_results) : LabelledTotals(relevant_results[i]) # <<>>)
    => /\ response.kind = "returned"
       /\ ReportsLabelledTotal([answer |-> response.answer, source |-> response.source],
                               relevant_results)

\* The text t states the inverter count n for substation sub: a mention of
\* that substation is followed by "n inverter(s)" with no mention of a
\* substation in between.
StatesCount(t, sub, n) ==
  \E s \in SubstationStarts(t) :
    /\ SubstationNumber(t, s) = sub
    /\ \E p \in CountStarts(t, s) :
         /\ ToInt(NumberAt(t, p)) = n
         /\ \A s2 \in SubstationStarts(t) : ~(s < s2 /\ s2 < p)

\* Every per_sub entry taken from the chunk r is stated by the text of r.
CountsStated(r) ==
  \A k \in 1..Len(ChunkCounts(r)) :
    StatesCount(Flat(OrEmpty(r.text)), ChunkCounts(r)[k].sub, ChunkCounts(r)[k].n)

\* The per-substation aggregation ran: the gate passed, no total row returned.
PerSubstationRan ==
  /\ pc = "aggregated"
  /\ IsInverterCountQuery(QueryLower(question))
  /\ TotalRow(relevant_results) = NoResult

\* C28: the per-substation aggregation records a count for a substation only
\* if the chunk's text states that count for that substation.
C28_CountsAttributedToOwnSubstation ==
  PerSubstationRan => \A i \in 1..Len(relevant_results) : CountsStated(relevant_results[i])

\* The curated terms of the intents the query triggers.
TriggeredTerms(ql) ==
  (IF IsCableQuery(ql) THEN cable_terms ELSE {})
  \cup (IF IsBatAugmentQuery(ql) THEN ecology_terms ELSE {})

\* `after` is `before` followed by chunks of new ids with score 0 that hold
\* one of the terms.
IsAppendOnly(before, after, terms) ==
  /\ Len(after) >= Len(before)
  /\ SubSeq(after, 1, Len(before)) = before
  /\ \A i \in (Len(before) + 1)..Len(after) :
       /\ after[i].score = 0
       /\ HasTerm(terms, after[i])
  /\ DistinctIds(after)

\* C26: after the augmentation passes the result list is the thresholded
\* results, unchanged, followed only by chunks of new ids with score 0 that
\* hold a curated term of a triggered intent; no id occurs twice.
C26_AugmentationAppendOnly ==
  PastAugmentation
    => IsAppendOnly(Relevant(results), relevant_results,
                    TriggeredTerms(QueryLower(expanded_question)))

\* Both intents triggered, two chunks were appended, and one of them holds
\* terms of both intents.
C26_Witness ==
  /\ PastAugmentation
  /\ IsCableQuery(QueryLower(expanded_question))
  /\ IsBatAugmentQuery(QueryLower(expanded_question))
  /\ Len(relevant_results) >= Len(Relevant(results)) + 2
  /\ \E i \in (Len(Relevant(results)) + 1)..Len(relevant_results) :
       HasTerm(cable_terms, relevant_results[i]) /\ HasTerm(ecology_terms, relevant_results[i])

\* Retrieval returned and nothing passed the threshold.
RetrievalEmpty ==
  /\ pc \in {"retrieved", "selected", "completed", "returned"}
  /\ Len(calls) >= 2
  /\ calls[2] = "collection.query"
  /\ Relevant(results) = <<>>

\* A stored chunk holds a curated term of an intent the query triggers.
AugmentationCouldAdd ==
  \E i \in 1..Len(store) : HasTerm(TriggeredTerms(QueryLower(expanded_question)), store[i])

\* C29: when retrieval returns nothing or nothing passes the threshold, the
\* request returns the fallback with no store scan after retrieval's own, so
\* an augmentation scan is made only after a result has passed the threshold.
C29_NoAugmentationOfEmptyRetrieval ==
  RetrievalEmpty
    => /\ pc = "returned"
       /\ response = Returned(NoResultsFallback(language))
       /\ relevant_results = <<>>
       /\ calls = <<"generate_embedding">> \o SearchCalls(expanded_question)

\* A cable or bat-box query whose curated terms occur in the store got the
\* early fallback although retrieval returned chunks.
C29_Witness ==
  /\ RetrievalEmpty
  /\ pc = "returned"
  /\ results # <<>>
  /\ AugmentationCouldAdd
  /\ response = Returned(NoResultsFallback(language))

-----------------------------------------------------------------------------
(* SpecLanguage: detect_language applied to a text                         *)

MaxWords == 2

\* The words the texts are made of: lexicon words in either case, a word
\* with a diacritic, pattern words, punctuation, English words.
LanguageWords ==
  {"bu", "Bir", "NE", "kadar", "kac", "nedir?", "ka^c", "metre", "the", "cable", "bu_bir"}

\* " ".join(ws)
SpaceJoined(ws) ==
  [i \in 1..(2 * Len(ws) - 1) |-> IF i % 2 = 1 THEN ws[(i + 1) \div 2] ELSE Sp]

LanguageTexts ==
  {<<>>} \cup {SpaceJoined(ws) : ws \in UNION {[1..n -> LanguageWords] : n \in 1..MaxWords}}

InitLanguage ==
  /\ pc = "detect"
  /\ question \in LanguageTexts
  /\ expanded_question = question
  /\ language = "-"
  /\ store = <<>>
  /\ vector_hits = <<>>
  /\ fault = {}
  /\ results = <<>>
  /\ relevant_results = <<>>
  /\ selected_results = <<>>
  /\ top_k = 0
  /\ max_chunks = 0
  /\ preferred_keyword_chunks = 0
  /\ llm_answer = None
  /\ response = NoResponse
  /\ calls = <<>>
  /\ NoIngest

\* language = detect_language(question)
DetectLanguage ==
  /\ pc = "detect"
  /\ language' = detect_language(question)
  /\ pc' = "detected"
  /\ UNCHANGED <<ingest_vars, question, expanded_question, store, vector_hits, fault, results,
                 relevant_results, selected_results, top_k, max_chunks,
                 preferred_keyword_chunks, llm_answer, response, calls>>

NextLanguage == DetectLanguage

SpecLanguage == InitLanguage /\ [][NextLanguage]_vars

\* The text holds a character of the diacritic set.
HasDiacritic(t) == \E i \in 1..Len(t) : t[i] \in TurkishChars

\* The lowered text holds two different lexicon words as whole words.
HasTwoLexiconWords(text_lower) ==
  \E w1 \in TURKISH_WORDS : \E w2 \in TURKISH_WORDS \ {w1} :
    HasWord({w1}, text_lower) /\ HasWord({w2}, text_lower)

MatchesQuestionPattern(text_lower) ==
  HasWord(turkish_patterns[1] \cup turkish_patterns[2] \cup turkish_patterns[3], text_lower)

IsTurkishText(t) ==
  \/ HasDiacritic(t)
  \/ HasTwoLexiconWords(Lower(t))
  \/ MatchesQuestionPattern(Lower(t))

\* C27: detect_language returns "tr" exactly for the texts with a Turkish
\* diacritic, two distinct lexicon words or a question pattern, and "en" for
\* every other text, the empty one included.
C27_DetectLanguageCascade ==
  pc = "detected"
    => /\ language \in {"tr", "en"}
       /\ language = "tr" <=> IsTurkishText(Flat(question))

\* A text of one lexicon word written twice, with no diacritic and no
\* pattern, was detected as English.
C27_Witness ==
  /\ pc = "detected"
  /\ language = "en"
  /\ question = SpaceJoined(<<"bu", "bu">>)

(***************************************************************************)
(* SpecIngest: runs of scripts/ingest_incremental.py over a documents      *)
(* folder whose files change between the runs                              *)
(***************************************************************************)

\* The supported files the documents folder can hold, in sorted order.
IngestDocOrder == <<"a.pdf", "b.docx">>

IngestDocs == {IngestDocOrder[i] : i \in 1..Len(IngestDocOrder)}

\* The contents a file can have.
MaxVersion == 2

\* The chunks process_document extracts from a file.
ChunksPerDoc == 2

\* The chunks the store can hold before a delete is taken to succeed.
MaxIngestStore == 4

\* The digest of a file's content: equal exactly for equal content.
sha256_file(content) == <<"sha256", content>>

\* The chunks process_document extracts from the file doc_name with this
\* content, or [] when the extraction fails.
process_document(doc_name, content, extracted) ==
  IF extracted
  THEN [i \in 1..ChunksPerDoc |->
          [doc_name |-> doc_name, chunk_index |-> i - 1, text |-> <<doc_name, content, i - 1>>]]
  ELSE <<>>

\* The record the ingest adds for a chunk (the uuid suffix of its id, which
\* nothing reads, is left out).
IngestRecord(chunk) ==
  [id |-> <<chunk.doc_name, chunk.chunk_index>>, text |-> chunk.text,
   metadata |-> [doc_name |-> chunk.doc_name, chunk_index |-> chunk.chunk_index]]

\* docs_to_add: the chunks whose embedding did not raise, in order.
RECURSIVE docs_to_add(_, _, _)
docs_to_add(chunks, embedded, i) ==
  IF i > Len(chunks) THEN <<>>
  ELSE IF i \in embedded
  THEN <<IngestRecord(chunks[i])>> \o docs_to_add(chunks, embedded, i + 1)
  ELSE docs_to_add(chunks, embedded, i + 1)

\* The collection after delete_by_doc_name(doc_name): the document's chunks
\* are gone, or the delete raised and the exception was swallowed.
DeleteChunk(doc_name, c) == c.metadata.doc_name # doc_name

delete_by_doc_name(st, doc_name, deleted) ==
  IF deleted THEN SelectSeq(st, LAMBDA c : DeleteChunk(doc_name, c)) ELSE st

\* The collection after delete_by_doc_name of every pruned name.
RECURSIVE PruneStore(_, _, _, _)
PruneStore(st, names, failed, i) ==
  IF i > Len(names) THEN st
  ELSE PruneStore(delete_by_doc_name(st, names[i], names[i] \notin failed), names, failed, i + 1)

\* The collection after add_documents(docs): nothing is added for [].
add_documents(st, docs) == st \o docs

\* The names of the files on disk and of the manifest's entries.
on_disk_names(files) == DOMAIN files

known_names(m) == DOMAIN m

\* The manifest entries no file on disk has, in sorted order.
IsPruned(files, m, d) == d \in known_names(m) \ on_disk_names(files)

to_prune(files, m) == SelectSeq(IngestDocOrder, LAMBDA d : IsPruned(files, m, d))

\* A file is new or its digest differs from the recorded one.
changed(files, m, d) ==
  /\ d \in on_disk_names(files)
  /\ (d \notin known_names(m) \/ m[d] # sha256_file(files[d]))

ChangedDocs(files, m) == SelectSeq(IngestDocOrder, LAMBDA d : changed(files, m, d))

\* to_process: the changed files with the digests computed at the scan.
to_process(files, m) ==
  [i \in 1..Len(ChangedDocs(files, m)) |->
     <<ChangedDocs(files, m)[i], sha256_file(files[ChangedDocs(files, m)[i]])>>]

\* The manifest without the pruned entries.
PrunedManifest(files, m) ==
  [d \in known_names(m) \cap on_disk_names(files) |-> m[d]]

\* manifest["files"][doc_name] = {"sha256": digest, ...}
RecordDigest(m, doc_name, digest) ==
  [d \in known_names(m) \cup {doc_name} |-> IF d = doc_name THEN digest ELSE m[d]]

\* The folders the runs can find: any of the files with any content.
DocumentFolders == UNION {[D -> 1..MaxVersion] : D \in SUBSET IngestDocs}

InitIngest ==
  /\ pc = "ingest"
  /\ question = <<>>
  /\ expanded_question = <<>>
  /\ language = "-"
  /\ store = <<>>
  /\ vector_hits = <<>>
  /\ fault = {}
  /\ results = <<>>
  /\ relevant_results = <<>>
  /\ selected_results = <<>>
  /\ top_k = 0
  /\ max_chunks = 0
  /\ preferred_keyword_chunks = 0
  /\ llm_answer = None
  /\ response = NoResponse
  /\ calls = <<>>
  /\ observed = <<>>
  /\ documents \in DocumentFolders
  /\ manifest = <<>>
  /\ ingest = [pc |-> "idle"]
  /\ collection = <<"<None>">>

request_vars == <<pc, question, expanded_question, language, vector_hits, fault, results,
                  relevant_results, selected_results, top_k, max_chunks,
                  preferred_keyword_chunks, llm_answer, response, calls, observed,
                  collection>>

\* Between two runs a file is written, replaced or removed.
ChangeFile ==
  /\ ingest.pc = "idle"
  /\ \E d \in IngestDocs : \E content \in 1..MaxVersion :
       /\ d \in DOMAIN documents => documents[d] # content
       /\ documents' = [x \in DOMAIN documents \cup {d} |->
                          IF x = d THEN content ELSE documents[x]]
  /\ UNCHANGED <<request_vars, store, manifest, ingest>>

RemoveFile ==
  /\ ingest.pc = "idle"
  /\ \E d \in DOMAIN documents :
       documents' = [x \in DOMAIN documents \ {d} |-> documents[x]]
  /\ UNCHANGED <<request_vars, store, manifest, ingest>>

\* main up to the loop over the changed documents: the scan of the folder,
\* the manifest, the digests and, with --prune-removed, the prune.
StartRun ==
  /\ ingest.pc = "idle"
  /\ on_disk_names(documents) # {}
  /\ \E prune_removed \in BOOLEAN :
     \E failed \in SUBSET (known_names(manifest) \ on_disk_names(documents)) :
       /\ ~prune_removed => failed = {}
       /\ store' = IF prune_removed
                   THEN PruneStore(store, to_prune(documents, manifest), failed, 1)
                   ELSE store
       /\ ingest' = [pc |-> "process",
                     manifest |-> IF prune_removed
                                  THEN PrunedManifest(documents, manifest)
                                  ELSE manifest,
                     to_process |-> to_process(documents, manifest)]
  /\ UNCHANGED <<request_vars, documents, manifest>>

\* One pass of the loop over the changed documents.
ProcessDocument ==
  /\ ingest.pc = "process"
  /\ ingest.to_process # <<>>
  /\ \E deleted \in BOOLEAN : \E extracted \in BOOLEAN :
     \E embedded \in SUBSET (1..ChunksPerDoc) :
       /\ ~deleted => Len(store) + ChunksPerDoc <= MaxIngestStore
       /\ ~extracted => embedded = {}
       /\ store' = add_documents(
            delete_by_doc_name(store, Head(ingest.to_process)[1], deleted),
            docs_to_add(process_document(Head(ingest.to_process)[1],
                                         documents[Head(ingest.to_process)[1]],
                                         extracted),
                        embedded, 1))
       /\ ingest' = [ingest EXCEPT
            !.to_process = Tail(@),
            !.manifest = IF extracted
                         THEN RecordDigest(@, Head(ingest.to_process)[1],
                                           Head(ingest.to_process)[2])
                         ELSE @]
  /\ UNCHANGED <<request_vars, documents, manifest>>

\* save_manifest(manifest) at the end of the run.
FinishRun ==
  /\ ingest.pc = "process"
  /\ ingest.to_process = <<>>
  /\ manifest' = ingest.manifest
  /\ ingest' = [pc |-> "idle"]
  /\ UNCHANGED <<request_vars, documents, store>>

NextIngest == ChangeFile \/ RemoveFile \/ StartRun \/ ProcessDocument \/ FinishRun

SpecIngest == InitIngest /\ [][NextIngest]_vars

\* The store holds chunk i of the document with this content.
ChunkPresent(st, doc_name, content, i) ==
  \E k \in 1..Len(st) :
    /\ st[k].metadata.doc_name = doc_name
    /\ st[k].text = process_document(doc_name, content, TRUE)[i].text

\* The manifest records the digest of the file's current content.
RecordedUpToDate(files, m, d) ==
  /\ d \in on_disk_names(files)
  /\ d \in known_names(m)
  /\ m[d] = sha256_file(files[d])

\* C30: between the runs of the incremental ingest, every document whose
\* manifest entry records the sha256 of its current file content has every
\* chunk extracted from it in the store.
C30_UpToDateImpliesChunksStored ==
  ingest.pc = "idle" =>
    \A d \in IngestDocs :
      RecordedUpToDate(documents, manifest, d) =>
        \A i \in 1..ChunksPerDoc : ChunkPresent(store, d, documents[d], i)

(***************************************************************************)
(* SpecConcurrent: a request whose store reads interleave with the writes  *)
(* of an ingestion and with the first use of the store by other requests   *)
(***************************************************************************)

\* The writes of the ingestion side one request can meet.
MaxWrites == 2

ConcurrentQuestions ==
  { <<"DC cable">>, <<"bat box cable">>, <<"how many inverter are there">> }

ConcurrentStores ==
  { <<>>, StoreOf(AugmentPool), StoreOf(<<AggPool[1], AggPool[2]>>) }

\* The chunks the ingestion side adds.
WrittenChunks == Range(StoreOf(<<AugmentPool[2], AugmentPool[3], AggPool[1]>>))

ConcurrentAnswers == { <<"Jinko [Source: bom.xlsx]">> }

\* What collection.query can return: the stored chunks in store order, near
\* the query or opposite to it.
ConcurrentRankings(st) ==
  {[i \in 1..Len(st) |-> WithScore(st[i], PipelineSimilarity(pattern, i))] :
     pattern \in {"near", "opposite"}}

\* get_collection(): the cached handle, created at the first call.  The
\* handle names the collection; its second component is the content the
\* collection had at that call.
get_collection(cached, live) ==
  IF cached = None THEN <<"collection", live>> ELSE cached

\* A read through the handle returning the content the collection had when
\* the handle was created.
collection_contents_AtCreation(handle, live) == handle[2]

\* What a read through the handle returns: the content the collection has
\* at the call.
collection_contents(handle, live) == live

InitConcurrent ==
  /\ pc = "start"
  /\ question \in ConcurrentQuestions
  /\ expanded_question = question
  /\ language = "-"
  /\ store \in ConcurrentStores
  /\ vector_hits = <<>>
  /\ fault = {}
  /\ llm_answer \in ConcurrentAnswers
  /\ results = <<>>
  /\ relevant_results = <<>>
  /\ selected_results = <<>>
  /\ top_k = retrieval_top_k
  /\ max_chunks = default_max_chunks
  /\ preferred_keyword_chunks = default_preferred_keyword_chunks
  /\ response = NoResponse
  /\ calls = <<>>
  /\ observed = <<>>
  /\ documents = <<>>
  /\ manifest = <<>>
  /\ ingest = [pc |-> "writing", writes |-> 0]
  /\ collection = None

\* The request is between its embedding call and the last of its store reads.
ReadsPending == pc \in {"embedded", "queried", "retrieved", "augmented"}

\* The record of a store read: the call and the content of the collection
\* at the call.
Observation(call, live) == [call |-> call, contents |-> live]

\* collection.query of search_documents.
VectorQuery ==
  /\ pc = "embedded"
  /\ collection' = get_collection(collection, store)
  /\ vector_hits' \in ConcurrentRankings(collection_contents(collection', store))
  /\ observed' = Append(observed, Observation("collection.query", store))
  /\ calls' = Append(calls, "collection.query")
  /\ pc' = "queried"
  /\ UNCHANGED <<question, expanded_question, language, store, fault, results,
                 relevant_results, selected_results, top_k, max_chunks,
                 preferred_keyword_chunks, llm_answer, response, documents, manifest,
                 ingest>>

\* The rest of search_documents (the scan of search_documents_keyword and
\* the merge) and the threshold filter.
LexicalScan ==
  /\ pc = "queried"
  /\ results' = search_documents(collection_contents(collection, store), vector_hits, top_k,
                                 TRUE, expanded_question)
  /\ relevant_results' = Relevant(results')
  /\ IF IsHybrid(TRUE, expanded_question) /\ ScansStore(expanded_question)
       THEN /\ observed' = Append(observed, Observation("collection.get", store))
            /\ calls' = Append(calls, "collection.get")
       ELSE UNCHANGED <<observed, calls>>
  /\ IF NoRelevantResults(relevant_results')
       THEN response' = Returned(NoResultsFallback(language)) /\ pc' = "returned"
       ELSE response' = response /\ pc' = "retrieved"
  /\ UNCHANGED <<question, expanded_question, language, store, vector_hits, fault,
                 selected_results, top_k, max_chunks, preferred_keyword_chunks, llm_answer,
                 documents, manifest, ingest, collection>>

\* The lexical augmentation for cable queries.
CableScan ==
  /\ pc = "retrieved"
  /\ relevant_results' = AugmentIf(IsCableQuery(QueryLower(expanded_question)),
                                   relevant_results,
                                   collection_contents(collection, store), fault, cable_terms)
  /\ IF IsCableQuery(QueryLower(expanded_question))
       THEN /\ observed' = Append(observed, Observation("collection.get", store))
            /\ calls' = Append(calls, "collection.get")
       ELSE UNCHANGED <<observed, calls>>
  /\ pc' = "augmented"
  /\ UNCHANGED <<question, expanded_question, language, store, vector_hits, fault, results,
                 selected_results, top_k, max_chunks, preferred_keyword_chunks, llm_answer,
                 response, documents, manifest, ingest, collection>>

\* The lexical augmentation for bat-box queries, step 5 and the
\* deterministic aggregation.
BatScan ==
  /\ pc = "augmented"
  /\ relevant_results' = AugmentIf(IsBatAugmentQuery(QueryLower(expanded_question)),
                                   relevant_results,
                                   collection_contents(collection, store), fault, ecology_terms)
  /\ IF IsBatAugmentQuery(QueryLower(expanded_question))
       THEN /\ observed' = Append(observed, Observation("collection.get", store))
            /\ calls' = Append(calls, "collection.get")
       ELSE UNCHANGED <<observed, calls>>
  /\ selected_results' = select_chunks(expanded_question, relevant_results', max_chunks,
                                       preferred_keyword_chunks)
  /\ ReturnAggregate(try_answer_total_inverters(expanded_question, relevant_results'))
  /\ UNCHANGED <<question, expanded_question, language, store, vector_hits, fault, results,
                 top_k, max_chunks, preferred_keyword_chunks, llm_answer, documents,
                 manifest, ingest, collection>>

\* Another request calls get_collection first.
OtherRequest ==
  /\ collection = None
  /\ pc \in {"start", "embedded"}
  /\ collection' = get_collection(collection, store)
  /\ UNCHANGED <<pc, question, expanded_question, language, store, vector_hits, fault,
                 results, relevant_results, selected_results, top_k, max_chunks,
                 preferred_keyword_chunks, llm_answer, response, calls, observed,
                 documents, manifest, ingest>>

\* The ingestion side adds a chunk while the request is in flight.
IngestAdd ==
  /\ ReadsPending
  /\ ingest.writes < MaxWrites
  /\ \E c \in WrittenChunks :
       /\ ~HasId(store, c.id)
       /\ store' = add_documents(store, <<c>>)
  /\ ingest' = [ingest EXCEPT !.writes = @ + 1]
  /\ UNCHANGED <<request_vars, documents, manifest>>

\* The ingestion side deletes the chunks of a document while the request is
\* in flight.
IngestDelete ==
  /\ ReadsPending
  /\ ingest.writes < MaxWrites
  /\ \E k \in 1..Len(store) :
       store' = delete_by_doc_name(store, store[k].metadata.doc_name, TRUE)
  /\ ingest' = [ingest EXCEPT !.writes = @ + 1]
  /\ UNCHANGED <<request_vars, documents, manifest>>

NextConcurrent ==
  \/ Embed \/ VectorQuery \/ LexicalScan \/ CableScan \/ BatScan \/ Complete \/ PostProcess
  \/ OtherRequest \/ IngestAdd \/ IngestDelete

SpecConcurrent == InitConcurrent /\ [][NextConcurrent]_vars

\* The content the n-th store read of the request observed.
ContentsAt(obs, n) == IF n <= Len(obs) THEN obs[n].contents ELSE <<>>

\* The positions of the augmentations' scans among the reads of the request.
CableIndex(q) == IF IsHybrid(TRUE, q) /\ ScansStore(q) THEN 3 ELSE 2

BatIndex(q) == IF IsCableQuery(QueryLower(q)) THEN CableIndex(q) + 1 ELSE CableIndex(q)

\* The store reads a request for q makes when retrieval finds relevant results.
ReadsOf(q) == IF IsBatAugmentQuery(QueryLower(q)) THEN BatIndex(q) ELSE BatIndex(q) - 1

\* process_rag_query run without interruption on what the reads observed.
SequentialRelevant(q, hits, obs) ==
  Relevant(search_documents(ContentsAt(obs, 2), hits, retrieval_top_k, TRUE, q))

SequentialAugmented(q, relevant, obs) ==
  AugmentIf(IsBatAugmentQuery(QueryLower(q)),
            AugmentIf(IsCableQuery(QueryLower(q)), relevant, ContentsAt(obs, CableIndex(q)),
                      {}, cable_terms),
            ContentsAt(obs, BatIndex(q)), {}, ecology_terms)

SequentialAnswer(q, lang, relevant, answer) ==
  IF try_answer_total_inverters(q, relevant) # NoResult
    THEN try_answer_total_inverters(q, relevant)
    ELSE post_process(answer, get_fallback_message(lang),
                      select_chunks(q, relevant, default_max_chunks,
                                    default_preferred_keyword_chunks),
                      relevant)

SequentialResult(q, lang, hits, obs, answer) ==
  IF SequentialRelevant(q, hits, obs) = <<>>
    THEN NoResultsFallback(lang)
    ELSE SequentialAnswer(q, lang, SequentialAugmented(q, SequentialRelevant(q, hits, obs), obs),
                          answer)

\* The response is a dict of an answer string and a source, string or null.
IsAnswerAndSource(r) ==
  /\ r.kind = "returned"
  /\ r.answer # None
  /\ DOMAIN r = {"kind", "answer", "source"}

====
